---- MODULE Spec2Model ----
(***************************************************************************)
(* A model of the tiktokvideo pipeline: the video assembler                *)
(* (core/video_maker.py), the stock-media selector (core/media_fetcher.py) *)
(* the hardware profile (core/hardware.py), the caption generator          *)
(* (core/subtitles.py) and the two front ends (app.py, cli.py).            *)
(*                                                                         *)
(* Strings whose characters matter (script text, keywords) are sequences   *)
(* of one-character strings.  Durations are integer milliseconds.          *)
(***************************************************************************)
EXTENDS Integers, Sequences, FiniteSets, TLC

VARIABLES
    hwAccel,        \* HardwareProfile.ffmpeg_hw_accel of the process-wide profile
    cpuThreads,     \* HardwareProfile.cpu_threads
    ffmpegThreads,  \* HardwareProfile.ffmpeg_threads
    vmPc,           \* per caller: position inside VideoMaker.create
    vmArgs,         \* per caller: the arguments and locals of the running create
    vmCmd,          \* per caller: the local `cmd`
    vmRuns,         \* per caller: the encoder processes the call has run, in order
    vmOut,          \* per caller: how the call ended (return value or exception)
    kwText,         \* extract_keywords: the text argument
    kwMax,          \* extract_keywords: the max_keywords argument
    kwOut,          \* extract_keywords: the returned list, NotRun before the call
    apiKeyLen,      \* len(MediaFetcher.api_key)
    disk,           \* the cache directory: per cache file absent, partial or complete
    mfPc,           \* per thread: position inside auto_fetch_background / download_file
    mfLoc,          \* per thread: arguments and locals of the running call
    mfTrace,        \* per thread: the provider calls and download_file calls of the call
    mfOut,          \* per thread: how the call ended
    dlPrev,         \* the previous direct download_file call, NoDownload before the first
    srtSegs,        \* generate_srt: the segments returned by model.transcribe
    srtStyle,       \* generate_srt: the style argument
    srtOut,         \* generate_srt: whether it was called, and the list srt_entries
    colIn,          \* _to_bgr: the color argument
    colOut,         \* _to_bgr: whether it was called, and the returned string
    colBack,        \* _to_bgr applied to its own result: whether called, and the string
    hwEnv,          \* what the machine answers to the probes of detect_hardware
    hwProfile,      \* hardware._profile: 0 for None, else the identity of the object
    hwDetects,      \* how many times detect_hardware has run
    hwGot,          \* per component: the object its last get_profile call returned
    feKind,         \* the front end of the run: "app" (generate_video) or "cli" (main)
    feIn,           \* the inputs of the run and the state of the machine it runs on
    fePc,           \* the position of the run
    feTrace,        \* the stage operations the run has started, in order
    feOut           \* how the run ended

vmVars == <<hwAccel, cpuThreads, ffmpegThreads, vmPc, vmArgs, vmCmd, vmRuns, vmOut>>

kwVars == <<kwText, kwMax, kwOut>>

mfVars == <<apiKeyLen, disk, mfPc, mfLoc, mfTrace, mfOut, dlPrev>>

srtVars == <<srtSegs, srtStyle, srtOut>>

colVars == <<colIn, colOut, colBack>>

hwVars == <<hwEnv, hwProfile, hwDetects, hwGot>>

feVars == <<feKind, feIn, fePc, feTrace, feOut>>

vars == <<vmVars, kwVars, mfVars, srtVars, colVars, hwVars, feVars>>

\* What the operations of one component leave alone.
vmOthers == <<kwVars, mfVars, srtVars, colVars, hwVars, feVars>>
kwOthers == <<vmVars, mfVars, srtVars, colVars, hwVars, feVars>>
mfOthers == <<vmVars, kwVars, srtVars, colVars, hwVars, feVars>>
srtOthers == <<vmVars, kwVars, mfVars, colVars, hwVars, feVars>>
colOthers == <<vmVars, kwVars, mfVars, srtVars, hwVars, feVars>>
hwOthers == <<kwVars, mfVars, srtVars, colVars, feVars>>
feOthers == <<vmVars, kwVars, mfVars, srtVars, colVars, hwVars>>

Max(a, b) == IF a >= b THEN a ELSE b
Min(a, b) == IF a <= b THEN a ELSE b

None == "None"

(***************************************************************************)
(* core/media_fetcher.py: extract_keywords                                 *)
(***************************************************************************)

STOP_WORDS_FR == {
    <<"l", "e">>, <<"l", "a">>, <<"l", "e", "s">>, <<"u", "n">>, <<"u", "n", "e">>,
    <<"d", "e", "s">>, <<"d", "e">>, <<"d", "u">>, <<"a", "u">>, <<"a", "u", "x">>,
    <<"e", "t">>, <<"o", "u">>, <<"m", "a", "i", "s">>, <<"d", "o", "n", "c">>,
    <<"c", "a", "r">>, <<"n", "i">>, <<"q", "u", "e">>, <<"q", "u", "i">>,
    <<"q", "u", "o", "i">>, <<"c", "e">>, <<"c", "e", "t", "t", "e">>, <<"c", "e", "s">>,
    <<"m", "o", "n">>, <<"m", "a">>, <<"m", "e", "s">>, <<"t", "o", "n">>, <<"t", "a">>,
    <<"t", "e", "s">>, <<"s", "o", "n">>, <<"s", "a">>, <<"s", "e", "s">>,
    <<"n", "o", "t", "r", "e">>, <<"v", "o", "t", "r", "e">>, <<"l", "e", "u", "r">>,
    <<"l", "e", "u", "r", "s">>, <<"j", "e">>, <<"t", "u">>, <<"i", "l">>,
    <<"e", "l", "l", "e">>, <<"n", "o", "u", "s">>, <<"v", "o", "u", "s">>, <<"i", "l", "s">>,
    <<"e", "l", "l", "e", "s">>, <<"o", "n">>, <<"n", "e">>, <<"p", "a", "s">>,
    <<"p", "l", "u", "s">>, <<"j", "a", "m", "a", "i", "s">>, <<"r", "i", "e", "n">>,
    <<"t", "o", "u", "t">>, <<"t", "o", "u", "s">>, <<"t", "o", "u", "t", "e">>,
    <<"e", "s", "t">>, <<"s", "o", "n", "t">>, <<"ê", "t", "r", "e">>,
    <<"a", "v", "o", "i", "r">>, <<"f", "a", "i", "t">>, <<"f", "a", "i", "r", "e">>,
    <<"d", "i", "t">>, <<"d", "i", "r", "e">>, <<"d", "a", "n", "s">>, <<"s", "u", "r">>,
    <<"s", "o", "u", "s">>, <<"a", "v", "e", "c">>, <<"s", "a", "n", "s">>,
    <<"p", "o", "u", "r">>, <<"p", "a", "r">>, <<"e", "n", "t", "r", "e">>,
    <<"t", "r", "è", "s">>, <<"b", "i", "e", "n">>, <<"a", "u", "s", "s", "i">>,
    <<"c", "o", "m", "m", "e">>, <<"m", "ê", "m", "e">>, <<"e", "n", "c", "o", "r", "e">>,
    <<"d", "é", "j", "à">>, <<"i", "c", "i">>, <<"l", "à">>, <<"a", "l", "o", "r", "s">>,
    <<"p", "u", "i", "s">>, <<"a", "p", "r", "è", "s">>, <<"a", "v", "a", "n", "t">>,
    <<"q", "u", "a", "n", "d">>, <<"c", "o", "m", "m", "e", "n", "t">>,
    <<"p", "o", "u", "r", "q", "u", "o", "i">>, <<"o", "ù">>, <<"s", "i">>, <<"o", "u", "i">>,
    <<"n", "o", "n">> }

STOP_WORDS_EN == {
    <<"t", "h", "e">>, <<"a">>, <<"a", "n">>, <<"i", "s">>, <<"a", "r", "e">>,
    <<"w", "a", "s">>, <<"w", "e", "r", "e">>, <<"b", "e">>, <<"b", "e", "e", "n">>,
    <<"h", "a", "v", "e">>, <<"h", "a", "s">>, <<"h", "a", "d">>, <<"d", "o">>,
    <<"d", "o", "e", "s">>, <<"d", "i", "d">>, <<"w", "i", "l", "l">>,
    <<"w", "o", "u", "l", "d">>, <<"c", "o", "u", "l", "d">>, <<"s", "h", "o", "u", "l", "d">>,
    <<"m", "a", "y">>, <<"m", "i", "g", "h", "t">>, <<"m", "u", "s", "t">>,
    <<"s", "h", "a", "l", "l">>, <<"i">>, <<"y", "o", "u">>, <<"h", "e">>, <<"s", "h", "e">>,
    <<"i", "t">>, <<"w", "e">>, <<"t", "h", "e", "y">>, <<"m", "e">>, <<"h", "i", "m">>,
    <<"h", "e", "r">>, <<"u", "s">>, <<"t", "h", "e", "m">>, <<"m", "y">>,
    <<"y", "o", "u", "r">>, <<"h", "i", "s">>, <<"i", "t", "s">>, <<"o", "u", "r">>,
    <<"t", "h", "e", "i", "r">>, <<"t", "h", "i", "s">>, <<"t", "h", "a", "t">>,
    <<"t", "h", "e", "s", "e">>, <<"t", "h", "o", "s", "e">>, <<"w", "h", "a", "t">>,
    <<"w", "h", "i", "c", "h">>, <<"w", "h", "o">>, <<"i", "n">>, <<"o", "n">>, <<"a", "t">>,
    <<"t", "o">>, <<"f", "o", "r">>, <<"w", "i", "t", "h">>, <<"f", "r", "o", "m">>,
    <<"b", "y">>, <<"a", "b", "o", "u", "t">>, <<"a", "n", "d">>, <<"o", "r">>,
    <<"b", "u", "t">>, <<"n", "o", "t">>, <<"n", "o">>, <<"s", "o">>, <<"i", "f">>,
    <<"t", "h", "e", "n">>, <<"v", "e", "r", "y">>, <<"j", "u", "s", "t">>,
    <<"a", "l", "s", "o">>, <<"h", "o", "w">>, <<"w", "h", "e", "n">>,
    <<"w", "h", "e", "r", "e">>, <<"w", "h", "y">> }

ALL_STOP_WORDS == STOP_WORDS_FR \cup STOP_WORDS_EN

UpperChars ==
    <<"A", "B", "C", "D", "E", "F", "G", "H", "I", "J", "K", "L", "M", "N", "O", "P",
     "Q", "R", "S", "T", "U", "V", "W", "X", "Y", "Z", "À", "È", "É", "Ê", "Ù">>

LowerChars ==
    <<"a", "b", "c", "d", "e", "f", "g", "h", "i", "j", "k", "l", "m", "n", "o", "p",
     "q", "r", "s", "t", "u", "v", "w", "x", "y", "z", "à", "è", "é", "ê", "ù">>

Digits == {"0", "1", "2", "3", "4", "5", "6", "7", "8", "9"}

\* The characters \w matches: letters, digits and the underscore.
IsWordChar(c) ==
    \/ \E i \in 1..Len(LowerChars) : c = LowerChars[i] \/ c = UpperChars[i]
    \/ c \in Digits
    \/ c = "_"

\* The characters \s matches, which are also those str.split() splits on.
IsSpaceChar(c) == c \in {" ", "\t", "\n"}

\* str.lower(), one character
LowerChar(c) ==
    IF \E i \in 1..Len(UpperChars) : c = UpperChars[i]
    THEN LowerChars[CHOOSE i \in 1..Len(UpperChars) : c = UpperChars[i]]
    ELSE c

\* text.lower()
LowerText(text) == [i \in 1..Len(text) |-> LowerChar(text[i])]

\* re.sub(r"[^\w\s]", " ", s)
StripPunctuation(s) ==
    [i \in 1..Len(s) |-> IF IsWordChar(s[i]) \/ IsSpaceChar(s[i]) THEN s[i] ELSE " "]

RECURSIVE SplitFrom(_, _, _, _)
SplitFrom(s, i, cur, acc) ==
    IF i > Len(s) THEN (IF cur = <<>> THEN acc ELSE Append(acc, cur))
    ELSE IF IsSpaceChar(s[i])
    THEN SplitFrom(s, i + 1, <<>>, IF cur = <<>> THEN acc ELSE Append(acc, cur))
    ELSE SplitFrom(s, i + 1, Append(cur, s[i]), acc)

\* str.split(): the maximal runs of non-whitespace characters, in order
Split(s) == SplitFrom(s, 1, <<>>, <<>>)

\* extract_keywords, lines 81-82
Words(text) == Split(StripPunctuation(LowerText(text)))

\* A filter that forgets the stop words.
IsMeaningfulLengthOnly(w) == Len(w) > 3

\* The filter of line 85
IsMeaningful(w) == w \notin ALL_STOP_WORDS /\ Len(w) > 3

\* extract_keywords, line 85
Meaningful(words) == SelectSeq(words, IsMeaningful)

\* freq[w] after the loop of lines 88-90
Freq(meaningful, w) == Cardinality({i \in 1..Len(meaningful) : meaningful[i] = w})

RECURSIVE FreqKeysFrom(_, _, _)
FreqKeysFrom(meaningful, i, keys) ==
    IF i > Len(meaningful) THEN keys
    ELSE FreqKeysFrom(meaningful, i + 1,
                      IF \E j \in 1..Len(keys) : keys[j] = meaningful[i]
                      THEN keys ELSE Append(keys, meaningful[i]))

\* freq.keys(): a dict keeps its keys in the order of first insertion
FreqKeys(meaningful) == FreqKeysFrom(meaningful, 1, <<>>)

\* key=lambda w: (freq[w], len(w))
SortKey(meaningful, w) == <<Freq(meaningful, w), Len(w)>>

\* Python's order on pairs of integers
KeyLess(a, b) == a[1] < b[1] \/ (a[1] = b[1] /\ a[2] < b[2])

\* Where a stable descending sort puts w among the already sorted ws: after
\* every element whose key is not smaller than w's.
InsertPos(meaningful, ws, w) ==
    1 + Cardinality({j \in 1..Len(ws) :
                        ~KeyLess(SortKey(meaningful, ws[j]), SortKey(meaningful, w))})

\* An unstable variant: w goes before the elements that tie with it.
InsertDescBeforeTies(meaningful, ws, w) ==
    LET k == 1 + Cardinality({j \in 1..Len(ws) :
                        KeyLess(SortKey(meaningful, w), SortKey(meaningful, ws[j]))})
    IN SubSeq(ws, 1, k - 1) \o <<w>> \o SubSeq(ws, k, Len(ws))

InsertDesc(meaningful, ws, w) ==
    LET k == InsertPos(meaningful, ws, w)
    IN SubSeq(ws, 1, k - 1) \o <<w>> \o SubSeq(ws, k, Len(ws))

RECURSIVE SortedFrom(_, _, _, _)
SortedFrom(meaningful, keys, i, acc) ==
    IF i > Len(keys) THEN acc
    ELSE SortedFrom(meaningful, keys, i + 1, InsertDesc(meaningful, acc, keys[i]))

\* sorted(freq.keys(), key=..., reverse=True): descending and stable, so keys
\* that compare equal keep the order they have in freq.keys()
SortedWords(meaningful) == SortedFrom(meaningful, FreqKeys(meaningful), 1, <<>>)

\* s[:n]
Take(s, n) ==
    IF n >= 0 THEN SubSeq(s, 1, Min(n, Len(s)))
    ELSE SubSeq(s, 1, Max(0, Len(s) + n))

\* extract_keywords(text, max_keywords)
ExtractKeywords(text, maxKeywords) == Take(SortedWords(Meaningful(Words(text))), maxKeywords)

\* max_keywords: int = 3
DefaultMaxKeywords == 3

\* Fragments of script text the inputs are built from.
PieceChats == <<"C", "h", "a", "t", "s">>
PieceChatsComma == <<"c", "h", "a", "t", "s", ",">>
PieceChien == <<"c", "h", "i", "e", "n">>
PieceJouent == <<"j", "o", "u", "e", "n", "t">>
PieceCette == <<"C", "e", "t", "t", "e">>
PieceAntiTres == <<"a", "n", "t", "i", "_", "1", "-", "t", "r", "è", "s">>
PieceLEte == <<"l", "'", "É", "T", "É">>
PieceDemiLuneEt == <<"d", "e", "m", "i", "-", "l", "u", "n", "e", "\t", "e", "t">>

Pieces == {PieceChats, PieceChatsComma, PieceChien, PieceJouent, PieceCette, PieceAntiTres, PieceLEte, PieceDemiLuneEt}

\* The most fragments a script text is built from.
MaxPieces == 3

\* The largest max_keywords argument tried.
MaxKwArg == 3

RECURSIVE JoinPieces(_)
JoinPieces(ps) ==
    IF ps = <<>> THEN <<>>
    ELSE IF Len(ps) = 1 THEN ps[1]
    ELSE ps[1] \o <<" ">> \o JoinPieces(Tail(ps))

Texts == {JoinPieces(ps) : ps \in UNION {[1..n -> Pieces] : n \in 0..MaxPieces}}

NotRun == "NotRun"

InitKw ==
    /\ kwText \in Texts
    /\ kwMax \in 0..MaxKwArg
    /\ kwOut = NotRun

QuietKw ==
    /\ kwText = <<>>
    /\ kwMax = DefaultMaxKeywords
    /\ kwOut = NotRun

\* A call extract_keywords(kwText, kwMax).
ExtractKeywordsCall ==
    /\ kwOut = NotRun
    /\ kwOut' = ExtractKeywords(kwText, kwMax)
    /\ UNCHANGED <<kwText, kwMax>>
    /\ UNCHANGED kwOthers

(***************************************************************************)
(* core/media_fetcher.py: the provider calls, the download cache and       *)
(* auto_fetch_background                                                   *)
(***************************************************************************)

\* Threads that may call into the MediaFetcher.
FetchThreads == {1, 2}

\* Lengths of the API key: missing, too short, just long enough, a real key.
ApiKeyLens == {0, 10, 11, 56}

\* is_available: len(self.api_key) > 10
MinKeyLen == 10

\* A fetcher that believes it is always configured.
IsAvailableAlways == TRUE

\* is_available
IsAvailable == apiKeyLen > MinKeyLen

\* Remote URLs the provider can answer with.
UrlVideoA == "https://videos.pexels.com/video-files/857251/857251-hd_1080_1920_25fps.mp4"
UrlVideoB == "https://player.vimeo.com/external/342571552.hd.mp4?s=6aa6f164de3812abadff3dde86d19f7a074a8a66"
UrlPhotoA == "https://images.pexels.com/photos/45201/kitty-cat-kitten-pet-45201.jpeg?auto=compress&cs=tinysrgb&h=650&w=940"

VideoUrls == {UrlVideoA, UrlVideoB}
PhotoUrls == {UrlPhotoA}
Urls == VideoUrls \cup PhotoUrls

\* "video" in url
UrlContainsVideo(url) == url = UrlVideoA

\* url.endswith(".mp4")
UrlEndsWithMp4(url) == url = UrlVideoA

\* hashlib.md5(url.encode()).hexdigest()[:12]
Md5Hex12(url) ==
    CASE url = UrlVideoA -> "8c4b4543bf2c"
      [] url = UrlVideoB -> "3b44d5bcc642"
      [] url = UrlPhotoA -> "c4cf321f5e98"

\* download_file, line 219
Ext(url) == IF UrlContainsVideo(url) \/ UrlEndsWithMp4(url) THEN ".mp4" ELSE ".jpg"

\* download_file, line 221
FileName(url) == "pexels_" \o Md5Hex12(url) \o Ext(url)

\* cache_dir: str = "assets/backgrounds"
CacheDir == "assets/backgrounds"

\* str(self.cache_dir / filename)
FilePath(url) == CacheDir \o "/" \o FileName(url)

Files == {FilePath(url) : url \in Urls}

\* What search_videos and search_photos can build from a provider answer.
VideoResponses == {<<>>, <<UrlVideoA>>, <<UrlVideoB, UrlVideoA>>}
PhotoResponses == {<<>>, <<UrlPhotoA>>}

\* A provider call either fails (connection, timeout, HTTP status, bad JSON)
\* or answers with results.
SearchOutcomes(responses) ==
    {[failed |-> TRUE, results |-> <<>>]} \cup [failed : {FALSE}, results : responses]

\* A search whose network error escapes the call.
SearchReturnPropagate(outcome) ==
    IF outcome.failed THEN [raised |-> TRUE, value |-> <<>>]
    ELSE [raised |-> FALSE, value |-> outcome.results]

\* search_videos / search_photos: the try ... except Exception: return []
SearchReturn(outcome) ==
    IF outcome.failed THEN [raised |-> FALSE, value |-> <<>>]
    ELSE [raised |-> FALSE, value |-> outcome.results]

\* videos[:3], photos[:3]
TopChoices == 3

\* random.choice(results[:3])
Candidates(results) == {results[i] : i \in 1..Min(TopChoices, Len(results))}

\* keywords = ["abstract", "background"]
FallbackKeywords ==
    << <<"a", "b", "s", "t", "r", "a", "c", "t">>,
       <<"b", "a", "c", "k", "g", "r", "o", "u", "n", "d">> >>

RECURSIVE JoinWords(_)
\* " ".join(keywords)
JoinWords(ws) ==
    IF ws = <<>> THEN <<>>
    ELSE IF Len(ws) = 1 THEN ws[1]
    ELSE ws[1] \o <<" ">> \o JoinWords(Tail(ws))

\* Script texts given to auto_fetch_background: only stop words, one keyword,
\* two keywords.
FetchTexts ==
    {JoinPieces(<<PieceCette>>), JoinPieces(<<PieceChats>>),
     JoinPieces(<<PieceChien, PieceJouent>>)}

\* auto_fetch_background, lines 266-268
KeywordsFor(text) ==
    LET kw == ExtractKeywords(text, DefaultMaxKeywords)
    IN IF kw = <<>> THEN FallbackKeywords ELSE kw

\* A cascade that starts with the video search whatever the caller prefers.
FirstStepAlwaysVideo(prefer) == "search_videos"

\* auto_fetch_background, line 274: `if prefer_video:`
FirstStep(prefer) == IF prefer THEN "search_videos" ELSE "search_photos"

\* A retry that does not look at the number of keywords.
ShouldRetryAlways(keywords) == TRUE

\* auto_fetch_background, line 291
ShouldRetry(keywords) == Len(keywords) > 1

\* A check that takes any path for a download.
IsTruthyAlways(path) == TRUE

\* `if local_path:`
IsTruthy(path) == path # ""

\* A cache that never hits.
CacheHitNever(file) == FALSE

\* A cache that only serves a file whose download has ended well.
CacheHitWhenComplete(file) == disk[file] = "complete"

\* download_file, line 224: filepath.exists()
CacheHit(file) == disk[file] # "absent"

Pending == "<pending>"

NoLocals == [text |-> <<>>, prefer |-> FALSE, keywords |-> <<>>, step |-> "none", url |-> None]

NoResult == [kind |-> "none"]

\* The dict auto_fetch_background returns.
FetchResult(path, type, keywords) ==
    [kind |-> "return", path |-> path, type |-> type, keywords |-> keywords]

SearchEntry(op, step, query, outcome, found) ==
    [op |-> op, step |-> step, arg |-> query, failed |-> outcome.failed, hit |-> FALSE,
     net |-> TRUE, path |-> "", found |-> found]

DownloadEntry(step, url, failed, hit, net, path) ==
    [op |-> "download_file", step |-> step, arg |-> url, failed |-> failed, hit |-> hit,
     net |-> net, path |-> path, found |-> 0]

\* No direct download_file call has ended yet.
NoDownload == [op |-> "none"]

MfBusy(t) == mfPc[t] # "idle"

QuietMf ==
    /\ apiKeyLen = 0
    /\ disk = [f \in Files |-> "absent"]
    /\ mfPc = [t \in FetchThreads |-> "idle"]
    /\ mfLoc = [t \in FetchThreads |-> NoLocals]
    /\ mfTrace = [t \in FetchThreads |-> <<>>]
    /\ mfOut = [t \in FetchThreads |-> NoResult]
    /\ dlPrev = NoDownload

\* MediaFetcher.__init__ on an empty cache directory.
InitMf ==
    /\ apiKeyLen \in ApiKeyLens
    /\ disk = [f \in Files |-> "absent"]
    /\ mfPc = [t \in FetchThreads |-> "idle"]
    /\ mfLoc = [t \in FetchThreads |-> NoLocals]
    /\ mfTrace = [t \in FetchThreads |-> <<>>]
    /\ mfOut = [t \in FetchThreads |-> NoResult]
    /\ dlPrev = NoDownload

\* Where auto_fetch_background goes when a step found nothing.
AfterNothing(step, keywords) ==
    IF step = "video" THEN [pc |-> "search_photos", out |-> NoResult]
    ELSE IF step = "photo" /\ ShouldRetry(keywords)
    THEN [pc |-> "search_retry", out |-> NoResult]
    ELSE [pc |-> "returned", out |-> FetchResult("", "none", keywords)]

\* Where the caller of download_file goes with the returned path.
AfterDownload(loc, path) ==
    IF loc.step = "direct" THEN [pc |-> "returned", out |-> [kind |-> "return", path |-> path]]
    ELSE IF ~IsTruthy(path) THEN AfterNothing(loc.step, loc.keywords)
    ELSE IF loc.step = "video"
    THEN [pc |-> "returned", out |-> FetchResult(path, "video", loc.keywords)]
    ELSE IF loc.step = "photo"
    THEN [pc |-> "returned", out |-> FetchResult(path, "image", loc.keywords)]
    ELSE [pc |-> "returned", out |-> FetchResult(path, "image", <<loc.keywords[1]>>)]

\* auto_fetch_background, lines 261-271
AutoFetchCall(t) ==
    /\ mfPc[t] = "idle"
    /\ \E text \in FetchTexts, prefer \in BOOLEAN :
         IF ~IsAvailable
         THEN /\ mfLoc' = [mfLoc EXCEPT ![t] = [NoLocals EXCEPT !.text = text, !.prefer = prefer]]
              /\ mfPc' = [mfPc EXCEPT ![t] = "returned"]
              /\ mfOut' = [mfOut EXCEPT ![t] = FetchResult("", "none", <<>>)]
         ELSE /\ mfLoc' = [mfLoc EXCEPT ![t] =
                    [NoLocals EXCEPT !.text = text, !.prefer = prefer,
                                     !.keywords = KeywordsFor(text)]]
              /\ mfPc' = [mfPc EXCEPT ![t] = FirstStep(prefer)]
              /\ mfOut' = [mfOut EXCEPT ![t] = NoResult]
    /\ mfTrace' = [mfTrace EXCEPT ![t] = <<>>]
    /\ UNCHANGED <<apiKeyLen, disk, dlPrev>>
    /\ UNCHANGED mfOthers

\* One provider search of auto_fetch_background and the choice that follows
\* it: search_videos (lines 275-277), search_photos with the full query
\* (283-285) or with the first keyword (293-296).
Search(t, pc, op, step, query, responses) ==
    /\ mfPc[t] = pc
    /\ \E outcome \in SearchOutcomes(responses) :
         LET reply == IF IsAvailable THEN SearchReturn(outcome)
                      ELSE [raised |-> FALSE, value |-> <<>>]
             logged == IF IsAvailable
                       THEN Append(mfTrace[t], SearchEntry(op, step, query, outcome, Len(reply.value)))
                       ELSE mfTrace[t]
         IN
         /\ mfTrace' = [mfTrace EXCEPT ![t] = logged]
         /\ IF reply.raised
            THEN /\ mfPc' = [mfPc EXCEPT ![t] = "raised"]
                 /\ mfOut' = [mfOut EXCEPT ![t] = [kind |-> "raise"]]
                 /\ UNCHANGED mfLoc
            ELSE IF reply.value # <<>>
            THEN \E chosen \in Candidates(reply.value) :
                    /\ mfLoc' = [mfLoc EXCEPT ![t].step = step, ![t].url = chosen]
                    /\ mfPc' = [mfPc EXCEPT ![t] = "dl_check"]
                    /\ UNCHANGED mfOut
            ELSE LET next == AfterNothing(step, mfLoc[t].keywords) IN
                 /\ mfLoc' = [mfLoc EXCEPT ![t].step = step]
                 /\ mfPc' = [mfPc EXCEPT ![t] = next.pc]
                 /\ mfOut' = [mfOut EXCEPT ![t] = next.out]
    /\ UNCHANGED <<apiKeyLen, disk, dlPrev>>
    /\ UNCHANGED mfOthers

SearchVideos(t) ==
    Search(t, "search_videos", "video_search", "video", JoinWords(mfLoc[t].keywords),
           VideoResponses)

SearchPhotos(t) ==
    Search(t, "search_photos", "photo_search", "photo", JoinWords(mfLoc[t].keywords),
           PhotoResponses)

SearchPhotosRetry(t) ==
    Search(t, "search_retry", "photo_search", "retry", mfLoc[t].keywords[1], PhotoResponses)

\* download_file ends with `path`: the caller goes on.
DownloadReturns(t, entries, path) ==
    LET next == AfterDownload(mfLoc[t], path) IN
    /\ mfTrace' = [mfTrace EXCEPT ![t] = entries]
    /\ mfPc' = [mfPc EXCEPT ![t] = next.pc]
    /\ mfOut' = [mfOut EXCEPT ![t] = next.out]
    /\ UNCHANGED <<apiKeyLen, mfLoc, dlPrev>>

\* download_file, lines 218-226: the cache lookup
DlCheck(t) ==
    /\ mfPc[t] = "dl_check"
    /\ LET file == FilePath(mfLoc[t].url) IN
       IF CacheHit(file)
       THEN /\ DownloadReturns(t, Append(mfTrace[t],
                    DownloadEntry(mfLoc[t].step, mfLoc[t].url, FALSE, TRUE, FALSE, file)), file)
            /\ UNCHANGED disk
       ELSE /\ mfPc' = [mfPc EXCEPT ![t] = "dl_get"]
            /\ UNCHANGED <<apiKeyLen, disk, mfLoc, mfTrace, mfOut, dlPrev>>
    /\ UNCHANGED mfOthers

\* download_file, lines 230-231: requests.get and raise_for_status
DlGet(t) ==
    /\ mfPc[t] = "dl_get"
    /\ \E ok \in BOOLEAN :
         IF ok
         THEN /\ mfTrace' = [mfTrace EXCEPT ![t] = Append(@,
                    DownloadEntry(mfLoc[t].step, mfLoc[t].url, FALSE, FALSE, TRUE, Pending))]
              /\ mfPc' = [mfPc EXCEPT ![t] = "dl_open"]
              /\ UNCHANGED <<apiKeyLen, mfLoc, mfOut, dlPrev>>
         ELSE DownloadReturns(t, Append(mfTrace[t],
                    DownloadEntry(mfLoc[t].step, mfLoc[t].url, TRUE, FALSE, TRUE, "")), "")
    /\ UNCHANGED disk
    /\ UNCHANGED mfOthers

\* download_file, line 233: open(filepath, "wb") creates or truncates the file
DlOpen(t) ==
    /\ mfPc[t] = "dl_open"
    /\ disk' = [disk EXCEPT ![FilePath(mfLoc[t].url)] = "partial"]
    /\ mfPc' = [mfPc EXCEPT ![t] = "dl_write"]
    /\ UNCHANGED <<apiKeyLen, mfLoc, mfTrace, mfOut, dlPrev>>
    /\ UNCHANGED mfOthers

\* Another call has the file open for writing.
OtherWriter(t, file) ==
    \E u \in FetchThreads \ {t} : mfPc[u] = "dl_write" /\ FilePath(mfLoc[u].url) = file

\* The file after the last chunk of one writer. Each writer opened the file
\* with "wb" and writes at its own offset: with a second writer still at work
\* the bytes written before its truncation may be missing.
AfterLastChunk(t, file) ==
    IF OtherWriter(t, file) THEN {"partial", "complete"} ELSE {"complete"}

\* download_file, lines 234-241: the chunks are written and the path is
\* returned, or the stream breaks, the file stays as far as it was written
\* and "" is returned.
DlWrite(t) ==
    /\ mfPc[t] = "dl_write"
    /\ LET file == FilePath(mfLoc[t].url)
           n == Len(mfTrace[t])
       IN \E ok \in BOOLEAN :
            IF ok
            THEN /\ \E state \in AfterLastChunk(t, file) :
                        disk' = [disk EXCEPT ![file] = state]
                 /\ DownloadReturns(t, [mfTrace[t] EXCEPT ![n].path = file], file)
            ELSE /\ UNCHANGED disk
                 /\ DownloadReturns(t, [mfTrace[t] EXCEPT ![n].path = "", ![n].failed = TRUE], "")
    /\ UNCHANGED mfOthers

\* A direct call download_file(url).
DownloadFileCall(t) ==
    /\ mfPc[t] = "idle"
    /\ \E url \in Urls :
         mfLoc' = [mfLoc EXCEPT ![t] = [NoLocals EXCEPT !.step = "direct", !.url = url]]
    /\ mfPc' = [mfPc EXCEPT ![t] = "dl_check"]
    /\ mfTrace' = [mfTrace EXCEPT ![t] = <<>>]
    /\ mfOut' = [mfOut EXCEPT ![t] = NoResult]
    /\ UNCHANGED <<apiKeyLen, disk, dlPrev>>
    /\ UNCHANGED mfOthers

\* The caller takes the result; a direct download_file call is remembered as
\* the previous one.
FetchDone(t) ==
    /\ mfPc[t] \in {"returned", "raised"}
    /\ dlPrev' = IF mfLoc[t].step = "direct" /\ mfPc[t] = "returned"
                 THEN mfTrace[t][1] ELSE dlPrev
    /\ mfPc' = [mfPc EXCEPT ![t] = "idle"]
    /\ mfLoc' = [mfLoc EXCEPT ![t] = NoLocals]
    /\ mfTrace' = [mfTrace EXCEPT ![t] = <<>>]
    /\ mfOut' = [mfOut EXCEPT ![t] = NoResult]
    /\ UNCHANGED <<apiKeyLen, disk>>
    /\ UNCHANGED mfOthers

\* One auto_fetch_background call at a time.
NextFetchSeq ==
    \E t \in FetchThreads :
        \/ (AutoFetchCall(t) /\ \A u \in FetchThreads : ~MfBusy(u))
        \/ SearchVideos(t)
        \/ SearchPhotos(t)
        \/ SearchPhotosRetry(t)
        \/ DlCheck(t)
        \/ DlGet(t)
        \/ DlOpen(t)
        \/ DlWrite(t)
        \/ FetchDone(t)

\* One direct download_file call at a time.
NextDownloadSeq ==
    \E t \in FetchThreads :
        \/ (DownloadFileCall(t) /\ \A u \in FetchThreads : ~MfBusy(u))
        \/ DlCheck(t)
        \/ DlGet(t)
        \/ DlOpen(t)
        \/ DlWrite(t)
        \/ FetchDone(t)

\* download_file calls from two threads, interleaved at will: the cache
\* directory is shared and nothing serialises the calls.
NextDownload ==
    \E t \in FetchThreads :
        \/ DownloadFileCall(t)
        \/ DlCheck(t)
        \/ DlGet(t)
        \/ DlOpen(t)
        \/ DlWrite(t)
        \/ FetchDone(t)

(***************************************************************************)
(* core/hardware.py                                                        *)
(***************************************************************************)

\* Callers that may hold a VideoMaker; all share the profile singleton.
Procs == {1, 2}

Accels == {"vaapi", "nvenc", ""}

CpuCounts == {1, 4, 12}

\* detect_hardware: ffmpeg_threads = max(2, int(cpu_threads * 0.75))
FfmpegThreads(cpu) == Max(2, (cpu * 3) \div 4)

(***************************************************************************)
(* core/subtitles.py                                                       *)
(***************************************************************************)

\* The result of a function of the model before and after its call.
NotCalled == [called |-> FALSE, value |-> <<>>]
Returned(v) == [called |-> TRUE, value |-> v]

\* Whisper reports seconds as floats; the model counts time in units of
\* 1/10000 s, so that the truncation of _ts to whole milliseconds shows.
UnitsPerSecond == 10000

Styles == {"tiktok", "classic"}

\* words_per_group = 2 if style == "tiktok" else 8
WordsPerGroup(style) == IF style = "tiktok" THEN 2 ELSE 8

\* A grouping that closes a cue one word late.
ShouldFlushLate(buffer, group) == Len(buffer) > group

\* if len(buffer) >= words_per_group
ShouldFlush(buffer, group) == Len(buffer) >= group

\* A timestamp that takes the start of the word for its end.
WordEndAsStart(w) == w.start

\* words[-1].end as read by _format_entry
WordEnd(w) == w.end

\* _ts: seconds -> HH:MM:SS,mmm, each field truncated
Ts(u) ==
    [h |-> u \div (3600 * UnitsPerSecond),
     m |-> (u % (3600 * UnitsPerSecond)) \div (60 * UnitsPerSecond),
     s |-> (u % (60 * UnitsPerSecond)) \div UnitsPerSecond,
     ms |-> ((u % UnitsPerSecond) * 1000) \div UnitsPerSecond]

\* str.strip()
RECURSIVE Strip(_)
Strip(s) ==
    IF s = <<>> THEN s
    ELSE IF IsSpaceChar(s[1]) THEN Strip(Tail(s))
    ELSE IF IsSpaceChar(s[Len(s)]) THEN Strip(SubSeq(s, 1, Len(s) - 1))
    ELSE s

\* _format_entry: the fields of "{index}\n{start} --> {end}\n{text}\n"
FormatEntry(index, words) ==
    [index |-> index,
     start |-> Ts(words[1].start),
     end |-> Ts(WordEnd(words[Len(words)])),
     text |-> JoinWords([i \in 1..Len(words) |-> Strip(words[i].word)])]

\* generate_srt, lines 88-96: the two nested loops, one word at a time.
\* A segment whose words attribute is None has timed = FALSE.
\* si and wi are the positions of the segment and of the word inside it.
RECURSIVE SrtLoop(_, _, _, _, _, _, _)
SrtLoop(segments, si, wi, group, index, buffer, entries) ==
    IF si > Len(segments)
    THEN [index |-> index, buffer |-> buffer, entries |-> entries]
    ELSE IF ~segments[si].timed
    THEN SrtLoop(segments, si + 1, 1, group, index, buffer, entries)
    ELSE IF wi > Len(segments[si].words)
    THEN SrtLoop(segments, si + 1, 1, group, index, buffer, entries)
    ELSE LET appended == Append(buffer, segments[si].words[wi]) IN
         IF ShouldFlush(appended, group)
         THEN SrtLoop(segments, si, wi + 1, group, index + 1, <<>>,
                      Append(entries, FormatEntry(index, appended)))
         ELSE SrtLoop(segments, si, wi + 1, group, index, appended, entries)

\* generate_srt, lines 73-99: the list srt_entries that is written to the file
GenerateSrt(segments, style) ==
    LET end == SrtLoop(segments, 1, 1, WordsPerGroup(style), 1, <<>>, <<>>) IN
    IF end.buffer # <<>>
    THEN Append(end.entries, FormatEntry(end.index, end.buffer))
    ELSE end.entries

\* ---- the transcriptions of the model ----

MaxSegs == 3
MaxSegWords == 5

\* The text of an untimed segment has this many words.
UntimedWords == 2

SegLetters == <<"a", "b", "c", "d", "e", "f">>
WordDigits == <<"1", "2", "3", "4", "5", "6", "7">>

\* The j-th word of segment i as Whisper spells it, with its leading space.
WordText(i, j) == <<" ", SegLetters[i], WordDigits[j]>>

\* A segment is timed with 0..MaxSegWords words, or has no word timing
\* (segment.words is None), written -1 here.
Untimed == -1
SegShapes == (0..MaxSegWords) \cup {Untimed}

Shapes == UNION {[1..n -> SegShapes] : n \in 1..MaxSegs}

\* How the words of a transcription are laid out in time: back to back, with
\* pauses, of zero length, overlapping the next word, or going backwards.
Timings == {"contiguous", "pauses", "instant", "overlap", "backwards"}

\* 0.3337 s
WordStep == 3337

\* Start of the audio, and half a second before the first hour is over.
TimeBases == {0, 35995000}

\* Upper bound of the word positions, for the layout that goes backwards.
MaxWords == MaxSegs * MaxSegWords

WordStart(timing, base, k) ==
    IF timing = "backwards" THEN base + (MaxWords - k) * WordStep
    ELSE base + (k - 1) * WordStep

WordStop(timing, base, k) ==
    IF timing = "contiguous" THEN WordStart(timing, base, k) + WordStep
    ELSE IF timing = "pauses" THEN WordStart(timing, base, k) + 1
    ELSE IF timing = "instant" THEN WordStart(timing, base, k)
    ELSE IF timing = "overlap" THEN WordStart(timing, base, k) + 2 * WordStep
    ELSE WordStart(timing, base, k) + WordStep

\* The number of timed words before segment i.
RECURSIVE TimedBefore(_, _)
TimedBefore(shape, i) ==
    IF i <= 1 THEN 0
    ELSE TimedBefore(shape, i - 1) + (IF shape[i - 1] = Untimed THEN 0 ELSE shape[i - 1])

\* The segments model.transcribe returns for a shape and a layout in time.
Segments(shape, timing, base) ==
    [i \in 1..Len(shape) |->
        IF shape[i] = Untimed
        THEN [timed |-> FALSE, words |-> <<>>,
              text |-> [j \in 1..UntimedWords |-> WordText(i, j)]]
        ELSE [timed |-> TRUE,
              words |-> [j \in 1..shape[i] |->
                            [word |-> WordText(i, j),
                             start |-> WordStart(timing, base, TimedBefore(shape, i) + j),
                             end |-> WordStop(timing, base, TimedBefore(shape, i) + j)]],
              text |-> [j \in 1..shape[i] |-> WordText(i, j)]]]

InitSrt ==
    /\ \E shape \in Shapes, timing \in Timings, base \in TimeBases :
         srtSegs = Segments(shape, timing, base)
    /\ srtStyle \in Styles
    /\ srtOut = NotCalled

QuietSrt ==
    /\ srtSegs = <<>>
    /\ srtStyle = "tiktok"
    /\ srtOut = NotCalled

\* generate_srt
GenerateSrtCall ==
    /\ ~srtOut.called
    /\ srtOut' = Returned(GenerateSrt(srtSegs, srtStyle))
    /\ UNCHANGED <<srtSegs, srtStyle>>
    /\ UNCHANGED srtOthers

(***************************************************************************)
(* core/video_maker.py: _to_bgr                                            *)
(***************************************************************************)

\* The keys of color_map.
NameWhite == <<"w", "h", "i", "t", "e">>
NameBlack == <<"b", "l", "a", "c", "k">>
NameRed == <<"r", "e", "d">>
NameGreen == <<"g", "r", "e", "e", "n">>
NameBlue == <<"b", "l", "u", "e">>
NameYellow == <<"y", "e", "l", "l", "o", "w">>

\* color_map
ColorMap(name) ==
    IF name = NameWhite THEN <<"F", "F", "F", "F", "F", "F">>
    ELSE IF name = NameBlack THEN <<"0", "0", "0", "0", "0", "0">>
    ELSE IF name = NameRed THEN <<"0", "0", "0", "0", "F", "F">>
    ELSE IF name = NameGreen THEN <<"0", "0", "F", "F", "0", "0">>
    ELSE IF name = NameBlue THEN <<"F", "F", "0", "0", "0", "0">>
    ELSE IF name = NameYellow THEN <<"0", "0", "F", "F", "F", "F">>
    ELSE <<>>

\* color.lower() in color_map
InColorMap(name) ==
    name \in {NameWhite, NameBlack, NameRed, NameGreen, NameBlue, NameYellow}

\* str.lstrip("#"): every leading "#" goes.
RECURSIVE LStripHash(_)
LStripHash(s) ==
    IF s # <<>> /\ s[1] = "#" THEN LStripHash(Tail(s)) ELSE s

\* The default of the last line of _to_bgr.
DefaultBgr == <<"F", "F", "F", "F", "F", "F">>

\* f"{h[4:6]}{h[2:4]}{h[0:2]}"
SwapBytes(h) == SubSeq(h, 5, 6) \o SubSeq(h, 3, 4) \o SubSeq(h, 1, 2)

\* _to_bgr
ToBgr(color) ==
    IF InColorMap(LowerText(color)) THEN ColorMap(LowerText(color))
    ELSE LET h == LStripHash(color) IN
         IF Len(h) = 6 THEN SwapBytes(h) ELSE DefaultBgr

\* ---- the colors of the model ----

\* Two-character pieces a color argument is built from; the last is not hex.
HexPairs == {<<"1", "a">>, <<"2", "e">>, <<"F", "F">>, <<"0", "0">>, <<"5", "g">>}

HashPrefixes == {<<>>, <<"#">>, <<"#", "#">>}

\* Six characters after the prefix.
SixCharColors ==
    {p \o a \o b \o c : p \in HashPrefixes, a \in HexPairs, b \in HexPairs, c \in HexPairs}

\* Names in and out of color_map, in several cases, and arguments that are
\* too short or too long.
OtherColors ==
    {NameWhite, NameBlack, NameRed, NameGreen, NameBlue, NameYellow,
     <<"R", "e", "d">>, <<"R", "E", "D">>, <<"o", "r", "a", "n", "g", "e">>, <<"c", "y", "a", "n">>, <<"W", "h", "i", "t", "e">>,
     <<>>, <<"#", "f", "f", "f">>, <<"#", "1", "a", "1", "a", "2", "e", "8", "0">>, <<"f", "f", "f">>}

ColorInputs == SixCharColors \cup OtherColors

InitCol ==
    /\ colIn \in ColorInputs
    /\ colOut = NotCalled
    /\ colBack = NotCalled

QuietCol ==
    /\ colIn = <<>>
    /\ colOut = NotCalled
    /\ colBack = NotCalled

\* _to_bgr(color)
ToBgrCall ==
    /\ ~colOut.called
    /\ colOut' = Returned(ToBgr(colIn))
    /\ UNCHANGED <<colIn, colBack>>
    /\ UNCHANGED colOthers

\* _to_bgr applied to the result of the first call
ToBgrAgain ==
    /\ colOut.called
    /\ ~colBack.called
    /\ colBack' = Returned(ToBgr(colOut.value))
    /\ UNCHANGED <<colIn, colOut>>
    /\ UNCHANGED colOthers

NextColor == ToBgrCall \/ ToBgrAgain

(***************************************************************************)
(* core/hardware.py: detect_hardware and get_profile                       *)
(***************************************************************************)

\* The components that call get_profile: the front end at start-up (app.py
\* line 16, cli.py line 64) and the constructors of the three stages.
Components == {"front_end", "voice_clone", "subtitles", "video_maker"}

\* os.cpu_count(): a number, or 0 for None
CpuCountAnswers == {0, 1, 2, 3, 4, 12, 16}

\* The words the code looks for in the output of "ffmpeg -hwaccels".
HwaccelWords == {"vaapi", "nvenc", "cuda"}

Systems == {"Linux", "Windows"}

\* How the ffmpeg -hwaccels process ends: it prints, it is not found, it
\* times out.
FfmpegProbes == {"output", "FileNotFoundError", "TimeoutExpired"}

RenderNode == "/dev/dri/renderD128"

\* The machines of the model.
HwEnvs ==
    [cpuCount : CpuCountAnswers,
     hwaccels : SUBSET HwaccelWords,
     system : Systems,
     renderNode : BOOLEAN,
     ffmpeg : FfmpegProbes]

\* The defaults of the HardwareProfile dataclass.
DefaultCpuThreads == 8
DefaultFfmpegThreads == 4

\* profile.cpu_threads = os.cpu_count() or 8
CpuThreadsOf(env) == IF env.cpuCount = 0 THEN DefaultCpuThreads ELSE env.cpuCount

\* _detect_ffmpeg_hw: the value of profile.ffmpeg_hw_accel it leaves
DetectFfmpegHw(env) ==
    IF env.ffmpeg # "output" THEN ""
    ELSE IF "vaapi" \in env.hwaccels /\ env.system = "Linux" /\ env.renderNode THEN "vaapi"
    ELSE IF "nvenc" \in env.hwaccels \/ "cuda" \in env.hwaccels THEN "nvenc"
    ELSE ""

\* A singleton test that never finds the profile.
ProfileMissingAlways(profile) == TRUE

\* if _profile is None
ProfileMissing(profile) == profile = 0

\* get_profile calls of one process that the model follows.
MaxProfileCalls == 4

InitHw ==
    /\ hwEnv \in HwEnvs
    /\ hwProfile = 0
    /\ hwDetects = 0
    /\ hwGot = [c \in Components |-> <<>>]

QuietHw ==
    /\ hwEnv = [cpuCount |-> 4, hwaccels |-> {}, system |-> "Linux",
                renderNode |-> FALSE, ffmpeg |-> "output"]
    /\ hwProfile = 0
    /\ hwDetects = 0
    /\ hwGot = [c \in Components |-> <<>>]

\* The profile fields before the first detect_hardware: the dataclass defaults.
InitProfileFields ==
    /\ hwAccel = ""
    /\ cpuThreads = DefaultCpuThreads
    /\ ffmpegThreads = DefaultFfmpegThreads

RECURSIVE SumLens(_, _)
SumLens(f, S) ==
    IF S = {} THEN 0
    ELSE LET c == CHOOSE x \in S : TRUE IN Len(f[c]) + SumLens(f, S \ {c})

\* The number of get_profile calls made so far.
ProfileCalls == SumLens(hwGot, Components)

\* get_profile called by component c; detect_hardware runs inside it when
\* the singleton is missing.  hwGot keeps every object the component got.
GetProfileCall(c) ==
    /\ ProfileCalls < MaxProfileCalls
    /\ IF ProfileMissing(hwProfile)
       THEN /\ hwDetects' = hwDetects + 1
            /\ hwProfile' = hwDetects + 1
            /\ cpuThreads' = CpuThreadsOf(hwEnv)
            /\ ffmpegThreads' = FfmpegThreads(CpuThreadsOf(hwEnv))
            /\ hwAccel' = DetectFfmpegHw(hwEnv)
       ELSE UNCHANGED <<hwDetects, hwProfile, cpuThreads, ffmpegThreads, hwAccel>>
    /\ hwGot' = [hwGot EXCEPT ![c] = Append(@, hwProfile')]
    /\ UNCHANGED hwEnv
    /\ UNCHANGED <<vmPc, vmArgs, vmCmd, vmRuns, vmOut>>
    /\ UNCHANGED hwOthers

NextHardware == \E c \in Components : GetProfileCall(c)

(***************************************************************************)
(* app.py (generate_video) and cli.py (main): one pipeline run             *)
(***************************************************************************)

FrontEnds == {"app", "cli"}

\* A background path: the empty string, or a file name with its suffix and
\* whether the file exists.
NoPath == [empty |-> TRUE, exists |-> FALSE, suffix |-> ""]

Suffixes == {".mp4", ".MOV", ".png", ".txt"}

BgPaths == {NoPath} \cup [empty : {FALSE}, exists : BOOLEAN, suffix : Suffixes]

\* The text of the run: the -t option left out (cli only), the empty string,
\* whitespace only, or a script.
TextInputs == {"missing", "empty", "blank", "script"}

\* The voice sample: None in the app or -v left out in the cli, or a path.
VoiceInputs == {"missing", "given"}

\* not text.strip()
TextIsBlank(text) == text \in {"empty", "blank"}

\* The inputs of a run and the machine it runs on.  autoBg is auto_background
\* in the app and the absence of --no-auto-bg in the cli; manualBg says that
\* a manual background was given (manual_background, --bg) and manual is its
\* path; keyOk is MediaFetcher.is_available; ffmpeg says that
\* shutil.which("ffmpeg") finds the encoder.
FeInputs ==
    {in \in [text : TextInputs, voice : VoiceInputs, autoBg : BOOLEAN, manualBg : BOOLEAN,
             manual : BgPaths, keyOk : BOOLEAN, ffmpeg : BOOLEAN] :
        in.manualBg = ~in.manual.empty}

\* The four stages in pipeline order.
Stages == <<"media", "voice", "captions", "assemble">>

\* What a run can start: the four stage operations, the construction of the
\* VideoMaker, and the creation of the output directory by the cli.
NoRun == [kind |-> "none"]

Rejected == [kind |-> "rejected", video |-> None]

Crashed(where) == [kind |-> "error", raisedIn |-> where, video |-> None]

Succeeded == [kind |-> "ok", video |-> "video_path"]

QuietFe ==
    /\ feKind = "app"
    /\ feIn = [text |-> "script", voice |-> "given", autoBg |-> FALSE, manualBg |-> FALSE,
               manual |-> NoPath, keyOk |-> FALSE, ffmpeg |-> TRUE]
    /\ fePc = "off"
    /\ feTrace = <<>>
    /\ feOut = NoRun

\* The app gets its text from a text box, so it is never left out there.
InitFe ==
    /\ feKind \in FrontEnds
    /\ feIn \in FeInputs
    /\ feKind = "app" => feIn.text # "missing"
    /\ fePc = "start"
    /\ feTrace = <<>>
    /\ feOut = NoRun

\* A run that goes on to the next stage although the stage raised.
AfterStageGoOn(ok, next) == next

\* Where a run goes after a stage: on when the stage returned, to the end
\* when it raised (the except clause of app.py line 117; in the cli the
\* exception leaves main).
AfterStage(ok, next) == IF ok THEN next ELSE "done"

\* The result of a run after a stage: none yet, or the single error.
OutAfter(stage, ok) == IF ok THEN NoRun ELSE Crashed(stage)

\* app.py lines 15-30: the module is loaded; VideoMaker() raises when the
\* encoder is absent and the app never serves a request.
AppStart ==
    /\ feKind = "app"
    /\ fePc = "start"
    /\ IF feIn.ffmpeg
       THEN /\ fePc' = "validate"
            /\ feOut' = NoRun
       ELSE /\ fePc' = "done"
            /\ feOut' = Crashed("VideoMaker.__init__")
    /\ UNCHANGED <<feKind, feIn, feTrace>>
    /\ UNCHANGED feOthers

\* generate_video lines 56-59
AppValidate ==
    /\ feKind = "app"
    /\ fePc = "validate"
    /\ IF TextIsBlank(feIn.text) \/ feIn.voice = "missing"
       THEN /\ fePc' = "done"
            /\ feOut' = Rejected
       ELSE /\ fePc' = "media"
            /\ feOut' = NoRun
    /\ UNCHANGED <<feKind, feIn, feTrace>>
    /\ UNCHANGED feOthers

\* generate_video lines 62-79
AppMedia ==
    /\ feKind = "app"
    /\ fePc = "media"
    /\ IF feIn.autoBg /\ feIn.keyOk
       THEN \E ok \in BOOLEAN :
              /\ feTrace' = Append(feTrace, "media")
              /\ fePc' = AfterStage(ok, "voice")
              /\ feOut' = OutAfter("media", ok)
       ELSE /\ fePc' = "voice"
            /\ UNCHANGED <<feTrace, feOut>>
    /\ UNCHANGED <<feKind, feIn>>
    /\ UNCHANGED feOthers

\* generate_video lines 81-91
AppVoice ==
    /\ feKind = "app"
    /\ fePc = "voice"
    /\ \E ok \in BOOLEAN :
         /\ feTrace' = Append(feTrace, "voice")
         /\ fePc' = AfterStage(ok, "captions")
         /\ feOut' = OutAfter("voice", ok)
    /\ UNCHANGED <<feKind, feIn>>
    /\ UNCHANGED feOthers

\* generate_video lines 93-97
AppCaptions ==
    /\ feKind = "app"
    /\ fePc = "captions"
    /\ \E ok \in BOOLEAN :
         /\ feTrace' = Append(feTrace, "captions")
         /\ fePc' = AfterStage(ok, "assemble")
         /\ feOut' = OutAfter("captions", ok)
    /\ UNCHANGED <<feKind, feIn>>
    /\ UNCHANGED feOthers

\* generate_video lines 99-115
AppAssemble ==
    /\ feKind = "app"
    /\ fePc = "assemble"
    /\ \E ok \in BOOLEAN :
         /\ feTrace' = Append(feTrace, "assemble")
         /\ fePc' = "done"
         /\ feOut' = IF ok THEN Succeeded ELSE Crashed("assemble")
    /\ UNCHANGED <<feKind, feIn>>
    /\ UNCHANGED feOthers

\* main lines 60-69: argparse leaves the process when -t or -v is left out;
\* otherwise the output directory is created.
CliParse ==
    /\ feKind = "cli"
    /\ fePc = "start"
    /\ IF feIn.text = "missing" \/ feIn.voice = "missing"
       THEN /\ fePc' = "done"
            /\ feOut' = Rejected
            /\ UNCHANGED feTrace
       ELSE /\ fePc' = "media"
            /\ feOut' = NoRun
            /\ feTrace' = Append(feTrace, "mkdir")
    /\ UNCHANGED <<feKind, feIn>>
    /\ UNCHANGED feOthers

\* main lines 71-95
CliMedia ==
    /\ feKind = "cli"
    /\ fePc = "media"
    /\ IF ~feIn.manualBg /\ feIn.autoBg /\ feIn.keyOk
       THEN \E ok \in BOOLEAN :
              /\ feTrace' = Append(feTrace, "media")
              /\ fePc' = AfterStage(ok, "voice")
              /\ feOut' = OutAfter("media", ok)
       ELSE /\ fePc' = "voice"
            /\ UNCHANGED <<feTrace, feOut>>
    /\ UNCHANGED <<feKind, feIn>>
    /\ UNCHANGED feOthers

\* main lines 97-109
CliVoice ==
    /\ feKind = "cli"
    /\ fePc = "voice"
    /\ \E ok \in BOOLEAN :
         /\ feTrace' = Append(feTrace, "voice")
         /\ fePc' = AfterStage(ok, "captions")
         /\ feOut' = OutAfter("voice", ok)
    /\ UNCHANGED <<feKind, feIn>>
    /\ UNCHANGED feOthers

\* main lines 111-115
CliCaptions ==
    /\ feKind = "cli"
    /\ fePc = "captions"
    /\ \E ok \in BOOLEAN :
         /\ feTrace' = Append(feTrace, "captions")
         /\ fePc' = AfterStage(ok, "assemble")
         /\ feOut' = OutAfter("captions", ok)
    /\ UNCHANGED <<feKind, feIn>>
    /\ UNCHANGED feOthers

\* main lines 117-132: VideoMaker() is constructed here, then create runs.
CliAssemble ==
    /\ feKind = "cli"
    /\ fePc = "assemble"
    /\ IF ~feIn.ffmpeg
       THEN /\ fePc' = "done"
            /\ feOut' = Crashed("VideoMaker.__init__")
            /\ UNCHANGED feTrace
       ELSE \E ok \in BOOLEAN :
              /\ feTrace' = Append(feTrace, "assemble")
              /\ fePc' = "done"
              /\ feOut' = IF ok THEN Succeeded ELSE Crashed("assemble")
    /\ UNCHANGED <<feKind, feIn>>
    /\ UNCHANGED feOthers

NextPipeline ==
    \/ AppStart
    \/ AppValidate
    \/ AppMedia
    \/ AppVoice
    \/ AppCaptions
    \/ AppAssemble
    \/ CliParse
    \/ CliMedia
    \/ CliVoice
    \/ CliCaptions
    \/ CliAssemble

(***************************************************************************)
(* core/video_maker.py                                                     *)
(***************************************************************************)

\* result.stderr[-500:]
DiagLimit == 500

FPS == 30

\* A captured stderr is the text written by one encoder process; a slice of
\* it is the half-open character range [from, to) of that process's output.
StderrLens == {0, DiagLimit, DiagLimit + 1}

Stderr(run, len) == [run |-> run, from |-> 0, to |-> len]

\* s[-n:] for n > 0
LastChars(s, n) == [s EXCEPT !.from = Max(s.from, s.to - n)]

\* _encoding_args
EncodingArgs(accel, threads) ==
    IF accel = "vaapi"
    THEN [codec |-> "h264_vaapi", qflag |-> "-qp", q |-> 23, threads |-> None]
    ELSE IF accel = "nvenc"
    THEN [codec |-> "h264_nvenc", qflag |-> "-cq", q |-> 23, threads |-> None]
    ELSE [codec |-> "libx264", qflag |-> "-crf", q |-> 23, threads |-> threads]

IsSoftware(cmd) == cmd.enc.codec = "libx264"

\* A looped background that is cut one second after the narration.
CmdVideoBgLate(bg, dur, accel, threads) ==
    [strategy |-> "video_loop_crop", input |-> bg, enc |-> EncodingArgs(accel, threads),
     frames |-> None, canvasDur |-> None, shortest |-> TRUE, t |-> dur + 1000]

\* _cmd_video_bg: "-stream_loop -1 -i bg ... -shortest -t dur"
CmdVideoBg(bg, dur, accel, threads) ==
    [strategy |-> "video_loop_crop", input |-> bg, enc |-> EncodingArgs(accel, threads),
     frames |-> None, canvasDur |-> None, shortest |-> TRUE, t |-> dur]

\* _cmd_image_bg: zoompan with d = int(dur * fps), "-shortest -t dur"
CmdImageBg(bg, dur, accel, threads) ==
    [strategy |-> "image_ken_burns", input |-> bg, enc |-> EncodingArgs(accel, threads),
     frames |-> (dur * FPS) \div 1000, canvasDur |-> None, shortest |-> TRUE, t |-> dur]

\* _cmd_color_bg: lavfi color source with d = dur, "-shortest", no "-t"
CmdColorBg(color, dur, accel, threads) ==
    [strategy |-> "solid_color", input |-> color, enc |-> EncodingArgs(accel, threads),
     frames |-> None, canvasDur |-> dur, shortest |-> TRUE, t |-> None]

\* str.lower() on the suffixes of the model
LowerSuffix(s) == IF s = ".MOV" THEN ".mov" ELSE s

\* A detection from the extension alone.
DetectBgTypeByExtension(path) ==
    IF LowerSuffix(path.suffix) \in {".mp4", ".mov", ".avi", ".webm", ".mkv"} THEN "video"
    ELSE IF LowerSuffix(path.suffix) \in {".jpg", ".jpeg", ".png", ".webp", ".bmp"} THEN "image"
    ELSE "none"

\* _detect_bg_type
DetectBgType(path) ==
    IF path.empty \/ ~path.exists THEN "none"
    ELSE IF LowerSuffix(path.suffix) \in {".mp4", ".mov", ".avi", ".webm", ".mkv"} THEN "video"
    ELSE IF LowerSuffix(path.suffix) \in {".jpg", ".jpeg", ".png", ".webp", ".bmp"} THEN "image"
    ELSE "none"

BgTypes == {"auto", "video", "image", "none", "gif"}

\* Narration durations ffprobe can report, in milliseconds.
Durations == {1234, 12300}

BgColors == {"#1a1a2e"}

\* The three-way dispatch of create (lines 112-117 and again 129-134).
BuildCmd(bgType, bgPath, bgColor, dur, accel, threads) ==
    IF bgType = "video" THEN CmdVideoBg(bgPath, dur, accel, threads)
    ELSE IF bgType = "image" THEN CmdImageBg(bgPath, dur, accel, threads)
    ELSE CmdColorBg(bgColor, dur, accel, threads)

\* The command of the retry (lines 129-134): rebuilt after the downgrade, so
\* _encoding_args reads the empty accelerator.
RetryCmd(p) ==
    BuildCmd(vmArgs[p].bgType, vmArgs[p].bgPath, vmArgs[p].bgColor, vmArgs[p].dur,
             "", ffmpegThreads)

\* reqType is the background_type argument, bgType the local after line 97.
NoArgs ==
    [reqType |-> "none", bgType |-> "none", bgPath |-> NoPath, bgColor |-> "#1a1a2e",
     dur |-> 0]

NoCmd == [strategy |-> None]

NoOut == [kind |-> "none"]

VmBusy(p) == vmPc[p] # "idle"

QuietVM ==
    /\ hwAccel = ""
    /\ cpuThreads = 4
    /\ ffmpegThreads = FfmpegThreads(cpuThreads)
    /\ vmPc = [p \in Procs |-> "idle"]
    /\ vmArgs = [p \in Procs |-> NoArgs]
    /\ vmCmd = [p \in Procs |-> NoCmd]
    /\ vmRuns = [p \in Procs |-> <<>>]
    /\ vmOut = [p \in Procs |-> NoOut]

InitVM ==
    /\ hwAccel \in Accels
    /\ cpuThreads \in CpuCounts
    /\ ffmpegThreads = FfmpegThreads(cpuThreads)
    /\ vmPc = [p \in Procs |-> "idle"]
    /\ vmArgs = [p \in Procs |-> NoArgs]
    /\ vmCmd = [p \in Procs |-> NoCmd]
    /\ vmRuns = [p \in Procs |-> <<>>]
    /\ vmOut = [p \in Procs |-> NoOut]

\* create, lines 92-121: probe the duration, detect the background type and
\* build the first command from the profile as it is now.
CreateWith(p, bgTypes, bgPaths, durations) ==
    /\ vmPc[p] = "idle"
    /\ \E bgType \in bgTypes, bgPath \in bgPaths, bgColor \in BgColors :
         \/ \E dur \in durations :
              LET bt == IF bgType = "auto" THEN DetectBgType(bgPath) ELSE bgType IN
              /\ vmArgs' = [vmArgs EXCEPT ![p] =
                    [reqType |-> bgType, bgType |-> bt, bgPath |-> bgPath,
                     bgColor |-> bgColor, dur |-> dur]]
              /\ vmCmd' = [vmCmd EXCEPT ![p] =
                    BuildCmd(bt, bgPath, bgColor, dur, hwAccel, ffmpegThreads)]
              /\ vmPc' = [vmPc EXCEPT ![p] = "encode"]
              /\ vmOut' = [vmOut EXCEPT ![p] = NoOut]
         \/ \* float(result.stdout.strip()) raises when ffprobe printed no duration
            /\ vmArgs' = [vmArgs EXCEPT ![p] =
                    [NoArgs EXCEPT !.reqType = bgType, !.bgType = bgType,
                                   !.bgPath = bgPath]]
            /\ vmCmd' = [vmCmd EXCEPT ![p] = NoCmd]
            /\ vmPc' = [vmPc EXCEPT ![p] = "raised"]
            /\ vmOut' = [vmOut EXCEPT ![p] = [kind |-> "raise", type |-> "ValueError"]]
    /\ vmRuns' = [vmRuns EXCEPT ![p] = <<>>]
    /\ UNCHANGED <<hwAccel, cpuThreads, ffmpegThreads>>
    /\ UNCHANGED vmOthers

\* A create call with any background arguments.
CreateCall(p) == CreateWith(p, BgTypes, BgPaths, Durations)

\* An error that reports the first process of the call.
RenderErrorFirstRun(p, result) ==
    [kind |-> "raise", type |-> "RuntimeError",
     diag |-> LastChars(IF vmRuns[p] = <<>> THEN result.stderr ELSE vmRuns[p][1].stderr,
                        DiagLimit)]

\* The error of line 138, with the diagnostic of `result`, the last process run.
RenderError(p, result) ==
    [kind |-> "raise", type |-> "RuntimeError", diag |-> LastChars(result.stderr, DiagLimit)]

\* A fallback that does not look at the accelerator.
ShouldFallbackAlways(accel) == TRUE

\* Whether a failed first attempt is retried: `if hw.ffmpeg_hw_accel:` (line 126)
ShouldFallback(accel) == accel # ""

\* A downgrade that leaves the accelerator as it was.
DowngradeKeeps(accel) == accel

\* hw.ffmpeg_hw_accel = "" (line 128)
Downgrade(accel) == ""

\* create, lines 122-135: the first subprocess.run and what follows it up to
\* the next process start, the return or the raise.
EncodeFirst(p) ==
    /\ vmPc[p] = "encode"
    /\ \E rc \in {0, 1}, len \in StderrLens :
         LET result == [cmd |-> vmCmd[p], rc |-> rc, stderr |-> Stderr(1, len)] IN
         /\ vmRuns' = [vmRuns EXCEPT ![p] = Append(@, result)]
         /\ IF rc = 0
            THEN /\ vmPc' = [vmPc EXCEPT ![p] = "returned"]
                 /\ vmOut' = [vmOut EXCEPT ![p] = [kind |-> "return", value |-> "output_path"]]
                 /\ UNCHANGED <<hwAccel, vmCmd>>
            ELSE IF ShouldFallback(hwAccel)
            THEN /\ hwAccel' = Downgrade(hwAccel)
                 /\ vmCmd' = [vmCmd EXCEPT ![p] = RetryCmd(p)]
                 /\ vmPc' = [vmPc EXCEPT ![p] = "retry"]
                 /\ UNCHANGED vmOut
            ELSE /\ vmPc' = [vmPc EXCEPT ![p] = "raised"]
                 /\ vmOut' = [vmOut EXCEPT ![p] = RenderError(p, result)]
                 /\ UNCHANGED <<hwAccel, vmCmd>>
    /\ UNCHANGED <<cpuThreads, ffmpegThreads, vmArgs>>
    /\ UNCHANGED vmOthers

\* create, lines 135-142: the second subprocess.run, then the raise or return.
EncodeRetry(p) ==
    /\ vmPc[p] = "retry"
    /\ \E rc \in {0, 1}, len \in StderrLens :
         LET result == [cmd |-> vmCmd[p], rc |-> rc, stderr |-> Stderr(2, len)] IN
         /\ vmRuns' = [vmRuns EXCEPT ![p] = Append(@, result)]
         /\ IF rc = 0
            THEN /\ vmPc' = [vmPc EXCEPT ![p] = "returned"]
                 /\ vmOut' = [vmOut EXCEPT ![p] = [kind |-> "return", value |-> "output_path"]]
            ELSE /\ vmPc' = [vmPc EXCEPT ![p] = "raised"]
                 /\ vmOut' = [vmOut EXCEPT ![p] = RenderError(p, result)]
    /\ UNCHANGED <<hwAccel, cpuThreads, ffmpegThreads, vmArgs, vmCmd>>
    /\ UNCHANGED vmOthers

\* The caller takes the result and drops the call's locals; the VideoMaker
\* can be used again.
CreateDone(p) ==
    /\ vmPc[p] \in {"returned", "raised"}
    /\ vmPc' = [vmPc EXCEPT ![p] = "idle"]
    /\ vmArgs' = [vmArgs EXCEPT ![p] = NoArgs]
    /\ vmCmd' = [vmCmd EXCEPT ![p] = NoCmd]
    /\ vmRuns' = [vmRuns EXCEPT ![p] = <<>>]
    /\ vmOut' = [vmOut EXCEPT ![p] = NoOut]
    /\ UNCHANGED <<hwAccel, cpuThreads, ffmpegThreads>>
    /\ UNCHANGED vmOthers

\* One create call at a time (the single-run-at-a-time use of the front ends).
NextCreateSeq ==
    \E p \in Procs :
        \/ (CreateCall(p) /\ \A q \in Procs : ~VmBusy(q))
        \/ EncodeFirst(p)
        \/ EncodeRetry(p)
        \/ CreateDone(p)

\* The backgrounds of the calls that share the profile: the encoder choice
\* does not depend on them.
SharedBgTypes == {"video", "none"}
SharedBgPaths == {[empty |-> FALSE, exists |-> TRUE, suffix |-> ".mp4"]}
SharedDurations == {1234}

\* create calls of two callers on the one profile, interleaved at will: the
\* profile object is shared by every VideoMaker and nothing serialises the
\* calls.
NextCreate ==
    \E p \in Procs :
        \/ CreateWith(p, SharedBgTypes, SharedBgPaths, SharedDurations)
        \/ EncodeFirst(p)
        \/ EncodeRetry(p)
        \/ CreateDone(p)

(***************************************************************************)
(* The background of a run: from the media lookup or the manual file of    *)
(* app.py and cli.py to the command built by create                        *)
(***************************************************************************)

\* The thread of the run.
RunThread == CHOOSE t \in FetchThreads \cap Procs : TRUE

\* Cache directories a run can start on: empty, or with one file left by an
\* earlier run.
CachesBefore ==
    {d \in [Files -> {"absent", "partial", "complete"}] :
        Cardinality({f \in Files : d[f] # "absent"}) <= 1}

\* Path(path).suffix of a cache file
FileSuffix(file) == Ext(CHOOSE url \in Urls : FilePath(url) = file)

\* The path string of a lookup result as create gets it.
AsBgPath(file) ==
    IF file = "" THEN NoPath
    ELSE [empty |-> FALSE, exists |-> disk[file] # "absent", suffix |-> FileSuffix(file)]

\* No lookup was made.
NoFetch == [path |-> "", type |-> "none"]

\* generate_video, lines 64-79: bg_path and bg_type
AppBackground(in, result) ==
    IF in.autoBg /\ in.keyOk
    THEN [path |-> AsBgPath(result.path), type |-> result.type]
    ELSE IF in.manualBg THEN [path |-> in.manual, type |-> "auto"]
    ELSE [path |-> NoPath, type |-> "none"]

\* A cli that takes the kind of the lookup result and leaves bg_path as it
\* was set from --bg.
CliBackgroundKeepsPath(in, result) ==
    IF ~in.manualBg /\ in.autoBg
    THEN IF in.keyOk
         THEN [path |-> in.manual, type |-> result.type]
         ELSE [path |-> in.manual, type |-> "none"]
    ELSE IF in.manualBg THEN [path |-> in.manual, type |-> "auto"]
    ELSE [path |-> in.manual, type |-> "none"]

\* main, lines 72-95: bg_path and bg_type
CliBackground(in, result) ==
    IF ~in.manualBg /\ in.autoBg
    THEN IF in.keyOk
         THEN [path |-> AsBgPath(result.path), type |-> result.type]
         ELSE [path |-> in.manual, type |-> "none"]
    ELSE IF in.manualBg THEN [path |-> in.manual, type |-> "auto"]
    ELSE [path |-> in.manual, type |-> "none"]

\* Whether the run calls auto_fetch_background (app.py line 67, cli.py lines
\* 75-78).
FetchWanted(kind, in) ==
    IF kind = "app" THEN in.autoBg /\ in.keyOk
    ELSE ~in.manualBg /\ in.autoBg /\ in.keyOk

\* The lookup of the run has ended, or the run makes none.
LookupOver(t) ==
    IF FetchWanted(feKind, feIn) THEN mfPc[t] = "returned" ELSE mfPc[t] = "idle"

LookupResult(t) == IF FetchWanted(feKind, feIn) THEN mfOut[t] ELSE NoFetch

\* app.py lines 68-70, cli.py lines 79-83: the call of auto_fetch_background
RunFetch(t) ==
    /\ fePc = "media"
    /\ FetchWanted(feKind, feIn)
    /\ vmPc[t] = "idle"
    /\ AutoFetchCall(t)

\* generate_video, lines 102-111: create gets bg_path and bg_type. The voice
\* and caption stages in between do not touch them.
AppCreate(t) ==
    /\ feKind = "app"
    /\ fePc = "media"
    /\ LookupOver(t)
    /\ LET bg == AppBackground(feIn, LookupResult(t)) IN
       CreateWith(t, {bg.type}, {bg.path}, SharedDurations)

\* main, lines 119-128
CliCreate(t) ==
    /\ feKind = "cli"
    /\ fePc = "media"
    /\ LookupOver(t)
    /\ LET bg == CliBackground(feIn, LookupResult(t)) IN
       CreateWith(t, {bg.type}, {bg.path}, SharedDurations)

\* One run from its media stage to the command of create.
NextBackground ==
    \E t \in {RunThread} :
        \/ RunFetch(t)
        \/ SearchVideos(t)
        \/ SearchPhotos(t)
        \/ SearchPhotosRetry(t)
        \/ DlCheck(t)
        \/ DlGet(t)
        \/ DlOpen(t)
        \/ DlWrite(t)
        \/ AppCreate(t)
        \/ CliCreate(t)

InitCreate == InitVM /\ QuietKw /\ QuietMf /\ QuietSrt /\ QuietCol /\ QuietHw /\ QuietFe

SpecCreate == InitCreate /\ [][NextCreateSeq]_vars

FirstRun(p) == vmRuns[p][1]
LastRun(p) == vmRuns[p][Len(vmRuns[p])]
VmEnded(p) == vmPc[p] \in {"returned", "raised"}

\* C1: in create, a failed first attempt on a hardware encoder empties the
\* profile's accelerator field and is followed by exactly one retry, built
\* for the software encoder; a call starts at most two encoder processes;
\* a failed software attempt is not retried.
C1_FallbackOnce ==
    \A p \in Procs :
        /\ Len(vmRuns[p]) <= 2
        /\ (Len(vmRuns[p]) >= 1 /\ FirstRun(p).rc # 0 /\ ~IsSoftware(FirstRun(p).cmd))
              => /\ hwAccel = ""
                 /\ vmPc[p] # "idle"
                 /\ IF Len(vmRuns[p]) = 1
                    THEN vmPc[p] = "retry" /\ IsSoftware(vmCmd[p])
                    ELSE VmEnded(p) /\ IsSoftware(vmRuns[p][2].cmd)
        /\ (Len(vmRuns[p]) >= 1 /\ FirstRun(p).rc # 0 /\ IsSoftware(FirstRun(p).cmd))
              => Len(vmRuns[p]) = 1 /\ vmPc[p] = "raised"
        /\ Len(vmRuns[p]) = 2 => FirstRun(p).rc # 0 /\ ~IsSoftware(FirstRun(p).cmd)

C1_Witness ==
    \E p \in Procs :
        /\ vmPc[p] = "returned"
        /\ Len(vmRuns[p]) = 2
        /\ FirstRun(p).rc # 0 /\ FirstRun(p).cmd.enc.codec = "h264_vaapi"
        /\ vmRuns[p][2].rc = 0 /\ IsSoftware(vmRuns[p][2].cmd)
        /\ hwAccel = ""

\* C2: create raises the render error exactly when the last encoder process
\* of the call exited non-zero (two failed processes when the first was a
\* hardware encode, one when it was software); a failed hardware attempt
\* followed by a successful software retry returns the output path; the
\* error holds the last 500 characters of the last process's stderr.
C2_RenderErrorIffLastFailed ==
    \A p \in Procs :
        VmEnded(p) =>
            /\ (vmOut[p].kind = "raise" /\ vmOut[p].type = "RuntimeError")
                  <=> (Len(vmRuns[p]) >= 1 /\ LastRun(p).rc # 0)
            /\ (Len(vmRuns[p]) >= 1 /\ LastRun(p).rc = 0)
                  => vmOut[p] = [kind |-> "return", value |-> "output_path"]
            /\ (vmOut[p].kind = "raise" /\ vmOut[p].type = "RuntimeError")
                  => /\ \A i \in 1..Len(vmRuns[p]) : vmRuns[p][i].rc # 0
                     /\ Len(vmRuns[p]) = IF IsSoftware(FirstRun(p).cmd) THEN 1 ELSE 2
                     /\ vmOut[p].diag.run = Len(vmRuns[p])
                     /\ vmOut[p].diag.to = LastRun(p).stderr.to
                     /\ vmOut[p].diag.to - vmOut[p].diag.from
                           = Min(DiagLimit, LastRun(p).stderr.to)

C2_Witness ==
    \E p \in Procs :
        /\ vmPc[p] = "raised"
        /\ Len(vmRuns[p]) = 2
        /\ FirstRun(p).stderr.to = 0
        /\ LastRun(p).stderr.to = DiagLimit + 1
        /\ vmOut[p].diag = [run |-> 2, from |-> 1, to |-> DiagLimit + 1]

(***************************************************************************)
(* The media selector on its own                                           *)
(***************************************************************************)

InitFetch == InitMf /\ QuietVM /\ QuietKw /\ QuietSrt /\ QuietCol /\ QuietHw /\ QuietFe

SpecFetch == InitFetch /\ [][NextFetchSeq]_vars

SpecDownload == InitFetch /\ [][NextDownloadSeq]_vars

\* The thread is inside, or has just ended, an auto_fetch_background call.
InAutoFetch(t) == mfPc[t] # "idle" /\ mfLoc[t].step # "direct"

AutoFetchReturned(t) == mfPc[t] = "returned" /\ mfLoc[t].step # "direct"

IsSearch(e) == e.op \in {"video_search", "photo_search"}

IsDownloaded(e) == e.op = "download_file" /\ e.path \notin {"", Pending}

\* C3: with the provider unconfigured (API key missing or of at most 10
\* characters) auto_fetch_background returns path "" and kind none, and the
\* call issues no video search, photo search or download.
C3_UnconfiguredNoNetwork ==
    apiKeyLen <= MinKeyLen =>
        \A t \in FetchThreads :
            InAutoFetch(t) =>
                /\ mfTrace[t] = <<>>
                /\ mfPc[t] = "returned"
                /\ mfOut[t].kind = "return"
                /\ mfOut[t].path = ""
                /\ mfOut[t].type = "none"

C3_Witness ==
    /\ apiKeyLen = MinKeyLen
    /\ \E t \in FetchThreads :
         /\ AutoFetchReturned(t)
         /\ mfLoc[t].prefer
         /\ mfLoc[t].text = JoinPieces(<<PieceChien, PieceJouent>>)
         /\ mfOut[t].type = "none"

\* What follows a step of the cascade that found nothing, seen from entry i
\* of the trace.
ContinuesAfter(t, i) ==
    LET tr == mfTrace[t]
        kw == mfLoc[t].keywords
        step == tr[i].step
    IN IF i < Len(tr)
       THEN /\ tr[i + 1].op = "photo_search"
            /\ \/ step = "video" /\ tr[i + 1].step = "photo"
               \/ step = "photo" /\ tr[i + 1].step = "retry" /\ Len(kw) > 1
       ELSE \/ step = "video" /\ mfPc[t] = "search_photos"
            \/ step = "photo" /\ Len(kw) > 1 /\ mfPc[t] = "search_retry"
            \/ /\ step = "retry" \/ (step = "photo" /\ Len(kw) <= 1)
               /\ mfPc[t] = "returned"
               /\ mfOut[t] = FetchResult("", "none", kw)

\* C4: auto_fetch_background never raises and always comes to a result:
\* a provider search or a download that fails counts as "nothing found" for
\* that call alone, and the cascade goes on with its next step.
C4_NeverRaises ==
    \A t \in FetchThreads :
        InAutoFetch(t) =>
            /\ mfPc[t] # "raised"
            /\ mfOut[t].kind # "raise"
            /\ mfPc[t] = "returned" => mfOut[t].kind = "return"
            /\ mfPc[t] # "returned" =>
                  ENABLED (SearchVideos(t) \/ SearchPhotos(t) \/ SearchPhotosRetry(t)
                           \/ DlCheck(t) \/ DlGet(t) \/ DlOpen(t) \/ DlWrite(t))
            /\ \A i \in 1..Len(mfTrace[t]) :
                  mfTrace[t][i].failed => ContinuesAfter(t, i)

C4_Witness ==
    \E t \in FetchThreads :
        /\ AutoFetchReturned(t)
        /\ Len(mfTrace[t]) = 5
        /\ mfTrace[t][1].op = "video_search" /\ ~mfTrace[t][1].failed
        /\ mfTrace[t][2].op = "download_file" /\ mfTrace[t][2].failed
        /\ mfTrace[t][3].op = "photo_search" /\ mfTrace[t][3].failed
        /\ mfTrace[t][4].op = "photo_search" /\ ~mfTrace[t][4].failed
        /\ mfTrace[t][5].op = "download_file" /\ mfTrace[t][5].failed
        /\ mfOut[t].type = "none"

\* C5: every result of auto_fetch_background has kind none with an empty
\* path, or kind video or image with a non-empty path, also when a search
\* found something and the download failed.
C5_KindPathInvariant ==
    \A t \in FetchThreads :
        AutoFetchReturned(t) =>
            /\ mfOut[t].type \in {"none", "video", "image"}
            /\ mfOut[t].type = "none" => mfOut[t].path = ""
            /\ mfOut[t].type \in {"video", "image"} => mfOut[t].path \in Files

C5_Witness ==
    \E t \in FetchThreads :
        /\ AutoFetchReturned(t)
        /\ Len(mfTrace[t]) = 2
        /\ mfTrace[t][1].op = "photo_search" /\ mfTrace[t][1].found = 1
        /\ mfTrace[t][2].op = "download_file" /\ mfTrace[t][2].failed
        /\ mfOut[t] = FetchResult("", "none", <<<<"c", "h", "a", "t", "s">>>>)

\* C6: with the provider configured, the photo search is run again with the
\* first keyword alone exactly when the video and photo steps on the full
\* query gave nothing and more than one keyword is in use; a retry that
\* yields a file gives kind image and that one keyword; otherwise the result
\* carries the full keyword list.
C6_SingleKeywordRetry ==
    \A t \in FetchThreads :
        (AutoFetchReturned(t) /\ apiKeyLen > MinKeyLen) =>
            LET tr == mfTrace[t]
                kw == mfLoc[t].keywords
                idx == 1..Len(tr)
                fullYield == \E i \in idx : IsDownloaded(tr[i]) /\ tr[i].step \in {"video", "photo"}
                retries == {i \in idx : tr[i].op = "photo_search" /\ tr[i].step = "retry"}
                retryYield == \E i \in idx : IsDownloaded(tr[i]) /\ tr[i].step = "retry"
            IN
            /\ kw # <<>>
            /\ retries # {} <=> (~fullYield /\ Len(kw) > 1)
            /\ Cardinality(retries) <= 1
            /\ \A i \in retries : tr[i].arg = kw[1]
            /\ \A i \in idx : (IsSearch(tr[i]) /\ tr[i].step # "retry") => tr[i].arg = JoinWords(kw)
            /\ retryYield => /\ mfOut[t].type = "image"
                             /\ mfOut[t].keywords = <<kw[1]>>
                             /\ mfOut[t].path = tr[Len(tr)].path
            /\ ~retryYield => mfOut[t].keywords = kw
            /\ (~retryYield /\ ~fullYield) => mfOut[t] = FetchResult("", "none", kw)

C6_Witness ==
    \E t \in FetchThreads :
        /\ AutoFetchReturned(t)
        /\ mfLoc[t].prefer
        /\ Len(mfTrace[t]) = 4
        /\ mfTrace[t][1].op = "video_search" /\ mfTrace[t][1].found = 0 /\ ~mfTrace[t][1].failed
        /\ mfTrace[t][2].op = "photo_search" /\ mfTrace[t][2].found = 0 /\ ~mfTrace[t][2].failed
        /\ mfTrace[t][3].op = "photo_search" /\ mfTrace[t][3].arg = PieceJouent
        /\ mfTrace[t][4].op = "download_file" /\ ~mfTrace[t][4].hit
        /\ mfOut[t] = FetchResult(FilePath(UrlPhotoA), "image", <<PieceJouent>>)

StepRank(step) == CASE step = "video" -> 1 [] step = "photo" -> 2 [] step = "retry" -> 3

\* C7: the cascade runs video search, photo search, single-keyword photo
\* search, in that order: the video endpoint is queried only with
\* prefer_video set and then before anything else; nothing is queried after
\* a video has been downloaded; the result has kind video only with
\* prefer_video set.
C7_CascadeOrder ==
    \A t \in FetchThreads :
        InAutoFetch(t) =>
            LET tr == mfTrace[t]
                idx == 1..Len(tr)
            IN
            /\ \A i \in idx : tr[i].op = "video_search" => mfLoc[t].prefer /\ i = 1
            /\ (mfLoc[t].prefer /\ tr # <<>>) => tr[1].op = "video_search"
            /\ \A i, j \in idx : i < j => StepRank(tr[i].step) <= StepRank(tr[j].step)
            /\ \A i, j \in idx : (i < j /\ IsSearch(tr[i]) /\ IsSearch(tr[j]))
                                    => StepRank(tr[i].step) < StepRank(tr[j].step)
            /\ \A i \in idx : (tr[i].op = "download_file") => (i > 1 /\ IsSearch(tr[i - 1])
                                    /\ tr[i - 1].step = tr[i].step)
            /\ \A i \in idx : (IsDownloaded(tr[i]) /\ tr[i].step = "video")
                                    => /\ i = Len(tr)
                                       /\ mfPc[t] = "returned"
                                       /\ mfOut[t].type = "video"
            /\ (mfPc[t] = "returned" /\ apiKeyLen > MinKeyLen /\ mfOut[t].type = "video")
                  => mfLoc[t].prefer

C7_Witness ==
    \E t \in FetchThreads :
        /\ AutoFetchReturned(t)
        /\ mfLoc[t].prefer
        /\ Len(mfTrace[t]) = 5
        /\ mfTrace[t][1].op = "video_search"
        /\ mfTrace[t][2].op = "download_file" /\ mfTrace[t][2].failed
        /\ mfTrace[t][3].op = "photo_search" /\ mfTrace[t][3].step = "photo"
        /\ mfTrace[t][4].op = "photo_search" /\ mfTrace[t][4].step = "retry"
        /\ mfTrace[t][5].op = "download_file"
        /\ mfOut[t].type = "image"

\* The second of two direct download_file calls in a row for the same URL
\* has returned.
SecondDownloadReturned(t) ==
    /\ mfPc[t] = "returned"
    /\ mfLoc[t].step = "direct"
    /\ dlPrev.op = "download_file"
    /\ dlPrev.arg = mfLoc[t].url

NetDownloads(e) == IF e.net THEN 1 ELSE 0

InitKeywords == InitKw /\ QuietVM /\ QuietMf /\ QuietSrt /\ QuietCol /\ QuietHw /\ QuietFe

SpecKeywords == InitKeywords /\ [][ExtractKeywordsCall]_vars

KwReturned == kwOut # NotRun

\* The characters between positions i and j of the text form a token: a
\* maximal run of word characters.
IsTokenAt(text, i, j) ==
    /\ i <= j
    /\ \A k \in i..j : IsWordChar(text[k])
    /\ i = 1 \/ ~IsWordChar(text[i - 1])
    /\ j = Len(text) \/ ~IsWordChar(text[j + 1])

\* w is the lower-cased form of a token of the text.
IsLoweredTokenOf(text, w) ==
    \E i \in 1..Len(text) :
        LET j == i + Len(w) - 1 IN
        /\ j <= Len(text)
        /\ IsTokenAt(text, i, j)
        /\ \A k \in 1..Len(w) : w[k] = LowerChar(text[i + k - 1])

HasUpper(w) == \E k \in 1..Len(w) : \E u \in 1..Len(UpperChars) : w[k] = UpperChars[u]

\* C9: no keyword returned by extract_keywords is a French or English stop
\* word or shorter than 4 characters; every keyword is the lower-cased form
\* of a token of the text; no keyword is returned twice.
C9_KeywordsFiltered ==
    KwReturned =>
        /\ \A i \in 1..Len(kwOut) :
              /\ kwOut[i] \notin STOP_WORDS_FR
              /\ kwOut[i] \notin STOP_WORDS_EN
              /\ Len(kwOut[i]) >= 4
              /\ ~HasUpper(kwOut[i])
              /\ IsLoweredTokenOf(kwText, kwOut[i])
        /\ \A i, j \in 1..Len(kwOut) : i # j => kwOut[i] # kwOut[j]

C9_Witness ==
    /\ KwReturned
    /\ kwText = JoinPieces(<<PieceCette, PieceAntiTres, PieceChats>>)
    /\ kwOut = <<<<"a", "n", "t", "i", "_", "1">>, <<"c", "h", "a", "t", "s">>>>

\* The tokens of the text that pass the filter.
KwTokens == Meaningful(Words(kwText))

KwKey(toks, w) == <<Cardinality({i \in 1..Len(toks) : toks[i] = w}), Len(w)>>

KwFirstIndex(toks, w) ==
    CHOOSE i \in 1..Len(toks) : toks[i] = w /\ \A j \in 1..(i - 1) : toks[j] # w

\* C10: extract_keywords returns the top max_keywords tokens: at most
\* max_keywords of them, in non-increasing order of (frequency, length), no
\* token left out ranking strictly higher than one returned; tokens that tie
\* on both are ordered by their first occurrence in the text, so that the
\* list is a function of the text.
C10_KeywordsRanked ==
    KwReturned =>
        LET toks == KwTokens
            distinct == {toks[i] : i \in 1..Len(toks)}
            key == [w \in distinct |-> KwKey(toks, w)]
            first == [w \in distinct |-> KwFirstIndex(toks, w)]
            leftOut == distinct \ {kwOut[i] : i \in 1..Len(kwOut)}
        IN
        /\ Len(kwOut) <= kwMax
        /\ Len(kwOut) = Min(kwMax, Cardinality(distinct))
        /\ \A i \in 1..Len(kwOut) : kwOut[i] \in distinct
        /\ \A i, j \in 1..Len(kwOut) :
              i < j => /\ ~KeyLess(key[kwOut[i]], key[kwOut[j]])
                       /\ key[kwOut[i]] = key[kwOut[j]] => first[kwOut[i]] < first[kwOut[j]]
        /\ \A w \in leftOut : \A i \in 1..Len(kwOut) :
              /\ ~KeyLess(key[kwOut[i]], key[w])
              /\ key[kwOut[i]] = key[w] => first[kwOut[i]] < first[w]

C10_Witness ==
    /\ KwReturned
    /\ kwMax = DefaultMaxKeywords
    /\ kwText = JoinPieces(<<PieceChien, PieceDemiLuneEt, PieceChatsComma>>)
    /\ kwOut = <<PieceChien, <<"c", "h", "a", "t", "s">>, <<"d", "e", "m", "i">>>>

(***************************************************************************)
(* generate_srt on its own                                                 *)
(***************************************************************************)

\* No create call is running; the profile fields are left to the caller.
VmIdle ==
    /\ vmPc = [p \in Procs |-> "idle"]
    /\ vmArgs = [p \in Procs |-> NoArgs]
    /\ vmCmd = [p \in Procs |-> NoCmd]
    /\ vmRuns = [p \in Procs |-> <<>>]
    /\ vmOut = [p \in Procs |-> NoOut]

InitSubtitles == InitSrt /\ QuietVM /\ QuietKw /\ QuietMf /\ QuietCol /\ QuietHw /\ QuietFe

SpecSubtitles == InitSubtitles /\ [][GenerateSrtCall]_vars

InitColor == InitCol /\ QuietVM /\ QuietKw /\ QuietMf /\ QuietSrt /\ QuietHw /\ QuietFe

SpecColor == InitColor /\ [][NextColor]_vars

InitHardware ==
    InitHw /\ InitProfileFields /\ VmIdle /\ QuietKw /\ QuietMf /\ QuietSrt /\ QuietCol /\ QuietFe

SpecHardware == InitHardware /\ [][NextHardware]_vars

InitPipeline == InitFe /\ QuietVM /\ QuietKw /\ QuietMf /\ QuietSrt /\ QuietCol /\ QuietHw

SpecPipeline == InitPipeline /\ [][NextPipeline]_vars

(***************************************************************************)
(* Claims about generate_srt                                               *)
(***************************************************************************)

\* The timed words of a transcription, in the order Whisper gave them.
RECURSIVE TimedWords(_)
TimedWords(segments) ==
    IF segments = <<>> THEN <<>>
    ELSE (IF segments[1].timed THEN segments[1].words ELSE <<>>)
         \o TimedWords(Tail(segments))

\* The words a cue shows, read back from its text.
CueWords(cue) == Split(cue.text)

RECURSIVE AllCueWords(_)
AllCueWords(cues) ==
    IF cues = <<>> THEN <<>> ELSE CueWords(cues[1]) \o AllCueWords(Tail(cues))

\* C11: the cues of generate_srt are numbered 1, 2, 3, ... in emission
\* order; every cue but the last shows exactly 2 words in the tiktok (dense)
\* style and exactly 8 in the classic style, wherever the segment boundaries
\* fall; the last cue shows what is left, between 1 word and the group size;
\* together the cues show all the timed words in order, and no word of a
\* segment without word timing is shown.
C11_CuesGrouped ==
    srtOut.called =>
        LET cues == srtOut.value
            size == IF srtStyle = "tiktok" THEN 2 ELSE 8
            timed == TimedWords(srtSegs)
            shown == AllCueWords(cues)
        IN  /\ \A i \in 1..Len(cues) : cues[i].index = i
            /\ \A i \in 1..(Len(cues) - 1) : Len(CueWords(cues[i])) = size
            /\ cues # <<>> => Len(CueWords(cues[Len(cues)])) \in 1..size
            /\ shown = [k \in 1..Len(timed) |-> Strip(timed[k].word)]
            /\ \A i \in 1..Len(srtSegs) :
                 ~srtSegs[i].timed =>
                     \A j \in 1..Len(srtSegs[i].text), k \in 1..Len(shown) :
                         shown[k] # Strip(srtSegs[i].text[j])

\* Classic style: a first cue of 8 words that starts in one segment and ends
\* in another, a segment without word timing between the two, and a shorter
\* last cue.
C11_Witness ==
    /\ srtOut.called
    /\ srtStyle = "classic"
    /\ Len(srtOut.value) = 2
    /\ Len(CueWords(srtOut.value[1])) = 8
    /\ Len(CueWords(srtOut.value[2])) < 8
    /\ Len(srtSegs) = 3
    /\ srtSegs[1].timed /\ Len(srtSegs[1].words) < 8
    /\ ~srtSegs[2].timed
    /\ srtSegs[3].timed

\* Words that are ordered in time: each ends no earlier than it starts and
\* no later than the next one starts.
TimeOrdered(words) ==
    /\ \A k \in 1..Len(words) : words[k].start <= words[k].end
    /\ \A k \in 1..(Len(words) - 1) : words[k].end <= words[k + 1].start

\* A timestamp HH:MM:SS,mmm in milliseconds.
TsMillis(ts) == ((ts.h * 60 + ts.m) * 60 + ts.s) * 1000 + ts.ms

\* C12: when the timed words are ordered in time, every cue starts at the
\* timestamp of the start of its first word and ends at the timestamp of the
\* end of its last word, starts no later than it ends, and ends no later
\* than the next cue starts.
C12_CuesTimeOrdered ==
    (srtOut.called /\ TimeOrdered(TimedWords(srtSegs))) =>
        LET cues == srtOut.value
            size == IF srtStyle = "tiktok" THEN 2 ELSE 8
            timed == TimedWords(srtSegs)
        IN  /\ \A i \in 1..Len(cues) :
                 /\ cues[i].start = Ts(timed[(i - 1) * size + 1].start)
                 /\ cues[i].end = Ts(timed[Min(i * size, Len(timed))].end)
                 /\ TsMillis(cues[i].start) <= TsMillis(cues[i].end)
            /\ \A i \in 1..(Len(cues) - 1) :
                 TsMillis(cues[i].end) <= TsMillis(cues[i + 1].start)

\* Ordered words with pauses whose times are not whole milliseconds, in cues
\* that start before the first hour is over and end after it.
C12_Witness ==
    /\ srtOut.called
    /\ TimeOrdered(TimedWords(srtSegs))
    /\ Len(srtOut.value) >= 3
    /\ srtOut.value[1].start.h = 0
    /\ srtOut.value[Len(srtOut.value)].end.h = 1
    /\ \E k \in 1..Len(TimedWords(srtSegs)) :
         /\ TimedWords(srtSegs)[k].end % 10 # 0
         /\ TimedWords(srtSegs)[k].end > TimedWords(srtSegs)[k].start

(***************************************************************************)
(* Claims about a pipeline run                                             *)
(***************************************************************************)

StageNames == {Stages[i] : i \in 1..Len(Stages)}

\* The position of a stage in the pipeline order.
StageRank(stage) == CHOOSE i \in 1..Len(Stages) : Stages[i] = stage

IsStage(e) == e \in StageNames

\* The stage operations a run has started, in order.
StagesStarted == SelectSeq(feTrace, IsStage)

\* C13: a run starts its stages in the order media, voice, captions,
\* assemble and each at most once; when a stage raises, the run is over with
\* that stage as the last one started (nothing is started after it, nothing
\* is started again), with one error and no video; a run that ends with a
\* video has started voice, captions and assemble.
C13_StagesInOrder ==
    LET st == StagesStarted IN
    /\ \A i, j \in 1..Len(st) : i < j => StageRank(st[i]) < StageRank(st[j])
    /\ (feOut.kind = "error" /\ feOut.raisedIn \in StageNames) =>
           /\ fePc = "done"
           /\ st # <<>>
           /\ st[Len(st)] = feOut.raisedIn
           /\ feOut.video = None
    /\ feOut.kind = "ok" =>
           /\ fePc = "done"
           /\ SubSeq(st, Len(st) - 2, Len(st)) = <<"voice", "captions", "assemble">>

\* The captions stage of the app raised after media and voice had run.
C13_Witness ==
    /\ feKind = "app"
    /\ feTrace = <<"media", "voice", "captions">>
    /\ feOut = Crashed("captions")
    /\ fePc = "done"

\* The required text is missing (left out, empty or whitespace only) or the
\* voice sample is missing.
InputMissing == feIn.text \in {"missing", "empty", "blank"} \/ feIn.voice = "missing"

\* C14 as stated: when the text or the voice sample is missing, the run
\* starts no stage and writes nothing, in the app and in the cli.
C14_AsStated == InputMissing => feTrace = <<>>

\* C15 as stated: when the encoder binary is absent, no stage has been
\* started when the construction of the VideoMaker raises, in the app and
\* in the cli.
C15_AsStated ==
    feOut = Crashed("VideoMaker.__init__") => StagesStarted = <<>>

(***************************************************************************)
(* Claims about the commands of create                                     *)
(***************************************************************************)

\* Whether caller p has built a command in its running create call.
HasCmd(p) == vmPc[p] \in {"encode", "retry", "returned", "raised"} /\ vmRuns[p] # <<>>

\* The length the encoder is told to stop at: the value of -t, or for the
\* solid-color command, which has no -t, the length d of its color canvas,
\* the only video input, the output ending with the shortest stream.
OutputLimit(cmd) ==
    IF cmd.strategy = "solid_color"
    THEN (IF cmd.shortest THEN cmd.canvasDur ELSE 0)
    ELSE cmd.t

\* C17: every command create runs, the first and the one of the fallback,
\* for a video, an image and a solid-color background, limits the output to
\* the duration the probe returned at the start of the call.
C17_DurationClamped ==
    \A p \in Procs : \A i \in 1..Len(vmRuns[p]) :
        /\ OutputLimit(vmRuns[p][i].cmd) = vmArgs[p].dur
        /\ vmArgs[p].dur \in Durations

\* A fallback run on a video background: two commands, both limited to the
\* probed duration.
C17_Witness ==
    \E p \in Procs :
        /\ Len(vmRuns[p]) = 2
        /\ vmRuns[p][1].cmd.strategy = "video_loop_crop"
        /\ vmRuns[p][2].cmd.strategy = "video_loop_crop"
        /\ vmRuns[p][2].cmd.t = 12300

\* The extensions _detect_bg_type knows, after lower-casing.
KnownSuffix(path) ==
    LowerSuffix(path.suffix) \in
        {".mp4", ".mov", ".avi", ".webm", ".mkv", ".jpg", ".jpeg", ".png", ".webp", ".bmp"}

\* C19: the command follows the background kind: video gives the looped
\* scale-and-crop command, image the Ken Burns command, every other kind
\* but auto the solid-color command; with auto, an empty path, a file that
\* does not exist or an extension that is not known gives the solid-color
\* command, and an existing file with a known extension the command of its
\* kind; the fallback command is of the same kind as the first.
C19_StrategyFollowsKind ==
    \A p \in Procs : HasCmd(p) =>
        LET req == vmArgs[p].reqType
            path == vmArgs[p].bgPath
            strategy == vmRuns[p][1].cmd.strategy
        IN  /\ req = "video" => strategy = "video_loop_crop"
            /\ req = "image" => strategy = "image_ken_burns"
            /\ req \notin {"video", "image", "auto"} => strategy = "solid_color"
            /\ (req = "auto" /\ (path.empty \/ ~path.exists \/ ~KnownSuffix(path))) =>
                   strategy = "solid_color"
            /\ (req = "auto" /\ ~path.empty /\ path.exists /\ KnownSuffix(path)) =>
                   strategy = (IF LowerSuffix(path.suffix) \in
                                      {".jpg", ".jpeg", ".png", ".webp", ".bmp"}
                               THEN "image_ken_burns" ELSE "video_loop_crop")
            /\ \A i \in 1..Len(vmRuns[p]) : vmRuns[p][i].cmd.strategy = strategy

\* Kind auto with the path of a video file that does not exist: the
\* solid-color command.
C19_Witness ==
    \E p \in Procs :
        /\ HasCmd(p)
        /\ vmArgs[p].reqType = "auto"
        /\ ~vmArgs[p].bgPath.empty
        /\ ~vmArgs[p].bgPath.exists
        /\ vmArgs[p].bgPath.suffix = ".mp4"
        /\ vmRuns[p][1].cmd.strategy = "solid_color"

(***************************************************************************)
(* Claims about the hardware profile                                       *)
(***************************************************************************)

\* C16: after any sequence of get_profile calls, from any components,
\* detect_hardware has run exactly once and every call returned the same
\* profile object, the singleton.
C16_ProbedOnce ==
    ProfileCalls > 0 =>
        /\ hwDetects = 1
        /\ hwProfile # 0
        /\ \A c \in Components : \A i \in 1..Len(hwGot[c]) : hwGot[c][i] = hwProfile

\* Four calls, made by at least three components.
C16_Witness ==
    /\ ProfileCalls = 4
    /\ Cardinality({c \in Components : hwGot[c] # <<>>}) >= 3
    /\ hwDetects = 1

\* C20 as stated: after detection, a hardware encoder is selected only when
\* the output of ffmpeg -hwaccels names that accelerator (and, for vaapi,
\* the render node exists); otherwise the software encoder is used with
\* crf 23 and max(2, floor(0.75 * cpuThreads)) threads.
C20_AsStated ==
    hwProfile # 0 =>
        /\ hwAccel = "vaapi" =>
               /\ hwEnv.ffmpeg = "output"
               /\ "vaapi" \in hwEnv.hwaccels
               /\ hwEnv.renderNode
        /\ hwAccel = "nvenc" =>
               /\ hwEnv.ffmpeg = "output"
               /\ "nvenc" \in hwEnv.hwaccels
        /\ hwAccel \in {"vaapi", "nvenc"} =>
               EncodingArgs(hwAccel, ffmpegThreads).q = 23
        /\ hwAccel \notin {"vaapi", "nvenc"} =>
               /\ EncodingArgs(hwAccel, ffmpegThreads).codec = "libx264"
               /\ EncodingArgs(hwAccel, ffmpegThreads).q = 23
               /\ EncodingArgs(hwAccel, ffmpegThreads).threads
                      = Max(2, (3 * cpuThreads) \div 4)

(***************************************************************************)
(* Claims about _to_bgr                                                    *)
(***************************************************************************)

HexDigits == Digits \cup {"a", "b", "c", "d", "e", "f", "A", "B", "C", "D", "E", "F"}

\* The six digits of a color written #RRGGBB or RRGGBB.
HexPart(color) == IF color # <<>> /\ color[1] = "#" THEN Tail(color) ELSE color

IsHexColor(color) ==
    /\ Len(HexPart(color)) = 6
    /\ \A i \in 1..6 : HexPart(color)[i] \in HexDigits

\* C18 as stated: #RRGGBB converts to BBGGRR, and converting the result
\* again gives back RRGGBB; a named CSS color converts to what its hex form
\* converts to (white #FFFFFF, black #000000, red #FF0000, green #008000,
\* blue #0000FF, yellow #FFFF00, orange #FFA500, cyan #00FFFF); every other
\* input converts to FFFFFF.
C18_AsStated ==
    colOut.called =>
        LET name == LowerText(colIn)
            cssHex ==
                IF name = NameWhite THEN <<"F", "F", "F", "F", "F", "F">>
                ELSE IF name = NameBlack THEN <<"0", "0", "0", "0", "0", "0">>
                ELSE IF name = NameRed THEN <<"F", "F", "0", "0", "0", "0">>
                ELSE IF name = NameGreen THEN <<"0", "0", "8", "0", "0", "0">>
                ELSE IF name = NameBlue THEN <<"0", "0", "0", "0", "F", "F">>
                ELSE IF name = NameYellow THEN <<"F", "F", "F", "F", "0", "0">>
                ELSE IF name = <<"o", "r", "a", "n", "g", "e">> THEN <<"F", "F", "A", "5", "0", "0">>
                ELSE IF name = <<"c", "y", "a", "n">> THEN <<"0", "0", "F", "F", "F", "F">>
                ELSE <<>>
            reversed(h) == <<h[5], h[6], h[3], h[4], h[1], h[2]>>
        IN  IF IsHexColor(colIn)
            THEN /\ colOut.value = reversed(HexPart(colIn))
                 /\ colBack.called => colBack.value = HexPart(colIn)
            ELSE IF cssHex # <<>>
            THEN colOut.value = reversed(cssHex)
            ELSE colOut.value = <<"F", "F", "F", "F", "F", "F">>


(***************************************************************************)
(* download_file called from two threads                                   *)
(***************************************************************************)

SpecDownloadShared == InitFetch /\ [][NextDownload]_vars

\* The call of thread t has missed the cache and has the file open.
Writing(t) == mfPc[t] = "dl_write"

SameUrl(t, u) == mfLoc[t].url # None /\ mfLoc[t].url = mfLoc[u].url

\* C21: the download cache has no lock. While one download_file call writes
\* the cache file of a URL, a second call for the same URL that is at the
\* cache lookup gets the path as a hit, and a second call that has already
\* missed the cache goes on to fetch and to open the same file for writing.
C21_CacheUnlocked ==
    \A t, u \in FetchThreads :
        (t # u /\ Writing(t) /\ SameUrl(t, u)) =>
            LET file == FilePath(mfLoc[u].url) IN
            /\ mfPc[u] = "dl_check" =>
                    /\ CacheHit(file)
                    /\ ENABLED (DlCheck(u) /\ mfPc'[u] = "returned"
                                          /\ mfOut'[u] = [kind |-> "return", path |-> file])
            /\ mfPc[u] = "dl_get" => ENABLED (DlGet(u) /\ mfPc'[u] = "dl_open")
            /\ mfPc[u] = "dl_open" => ENABLED (DlOpen(u) /\ Writing(u)')

\* One call has returned the cache path as a hit while the other call, which
\* missed the cache, is still writing that file; the call before them also
\* missed and wrote the file, so two calls have missed and written it.
C21_Witness ==
    \E t, u \in FetchThreads :
        /\ t # u /\ SameUrl(t, u)
        /\ Writing(t) /\ ~mfTrace[t][1].hit
        /\ disk[FilePath(mfLoc[t].url)] = "partial"
        /\ mfPc[u] = "returned" /\ mfTrace[u][1].hit
        /\ mfOut[u].path = FilePath(mfLoc[t].url)
        /\ dlPrev.op = "download_file" /\ dlPrev.arg = mfLoc[t].url
        /\ ~dlPrev.hit /\ dlPrev.net /\ dlPrev.path = FilePath(mfLoc[t].url)

\* Both calls have missed the cache and both have the same file open.
C21_BothWriting ==
    \E t, u \in FetchThreads :
        t # u /\ SameUrl(t, u) /\ Writing(t) /\ Writing(u)


DirectReturned(t) == mfPc[t] = "returned" /\ mfLoc[t].step = "direct"

\* C23 as stated: a failed download is never served from the cache. After a
\* download_file call that returned "", the next call for the same URL is
\* not a cache hit and goes to the network again, and a non-empty returned
\* path always names a completely downloaded file.
C23_AsStated ==
    \A t \in FetchThreads :
        /\ (SecondDownloadReturned(t) /\ dlPrev.failed) =>
                (~mfTrace[t][1].hit /\ mfTrace[t][1].net)
        /\ (DirectReturned(t) /\ mfOut[t].path # "") =>
                disk[mfOut[t].path] = "complete"

\* The call after a download that broke while the body was being written:
\* it is a cache hit on the file the broken download left behind.
C23_PartialFileServed ==
    \E t \in FetchThreads :
        /\ SecondDownloadReturned(t) /\ dlPrev.failed /\ dlPrev.path = ""
        /\ mfTrace[t][1].hit /\ ~mfTrace[t][1].net
        /\ mfOut[t].path = FilePath(mfLoc[t].url)
        /\ disk[mfOut[t].path] = "partial"


(***************************************************************************)
(* create called by two callers on the shared profile                      *)
(***************************************************************************)

SpecCreateShared == InitCreate /\ [][NextCreate]_vars

\* C22: of the profile fields only the accelerator is written after
\* initialisation, and it only changes from a non-empty value to empty. A
\* create call that starts when the field is empty builds its first command
\* for the software encoder, whichever caller makes it, and the field stays
\* empty when a software retry fails.
C22_AccelOnlyDowngrades ==
    [][/\ cpuThreads' = cpuThreads
       /\ ffmpegThreads' = ffmpegThreads
       /\ hwAccel' # hwAccel => (hwAccel # "" /\ hwAccel' = "")
       /\ \A p \in Procs :
            /\ (vmPc[p] = "idle" /\ vmPc'[p] = "encode" /\ hwAccel = "")
                  => IsSoftware(vmCmd'[p])
            /\ vmPc[p] = "retry" => hwAccel = ""
            /\ (vmPc[p] = "retry" /\ vmPc'[p] = "raised") => hwAccel' = ""]_vars

\* One caller's hardware attempt and its software retry have both failed,
\* and the other caller's call, started since, is on its first attempt with
\* the software encoder.
C22_Witness ==
    \E p, q \in Procs :
        /\ p # q
        /\ vmPc[p] = "raised" /\ Len(vmRuns[p]) = 2
        /\ ~IsSoftware(FirstRun(p).cmd) /\ IsSoftware(vmRuns[p][2].cmd)
        /\ hwAccel = ""
        /\ vmPc[q] = "encode" /\ vmRuns[q] = <<>> /\ IsSoftware(vmCmd[q])

\* C24 as stated: with two create calls interleaved on the shared profile,
\* a call whose command was built for the hardware encoder and whose encode
\* fails makes the software retry before it raises the render error.
C24_AsStated ==
    \A p \in Procs :
        (/\ vmPc[p] = "raised"
         /\ vmOut[p].type = "RuntimeError"
         /\ ~IsSoftware(FirstRun(p).cmd))
            => (Len(vmRuns[p]) = 2 /\ IsSoftware(vmRuns[p][2].cmd))

\* A call has raised the render error after its one hardware attempt, the
\* other call having emptied the accelerator in between.
C24_RaisedWithoutRetry ==
    \E p, q \in Procs :
        /\ p # q
        /\ vmPc[p] = "raised" /\ vmOut[p].type = "RuntimeError"
        /\ Len(vmRuns[p]) = 1 /\ FirstRun(p).cmd.enc.codec = "h264_vaapi"
        /\ Len(vmRuns[q]) >= 1 /\ FirstRun(q).cmd.enc.codec = "h264_vaapi"
        /\ vmPc[q] \in {"retry", "returned", "raised"} /\ FirstRun(q).rc # 0
        /\ IsSoftware(vmCmd[q])


(***************************************************************************)
(* The background handed to create by the front ends                       *)
(***************************************************************************)

\* A run that has passed its input checks and is at its media stage, on a
\* machine with the encoder, the cache directory as an earlier run left it.
InitBackground ==
    /\ feKind \in FrontEnds
    /\ feIn \in FeInputs
    /\ feIn.text = "script" /\ feIn.voice = "given" /\ feIn.ffmpeg
    /\ fePc = "media"
    /\ feTrace = IF feKind = "cli" THEN <<"mkdir">> ELSE <<>>
    /\ feOut = NoRun
    /\ apiKeyLen \in ApiKeyLens
    /\ feIn.keyOk = IsAvailable
    /\ disk \in CachesBefore
    /\ mfPc = [t \in FetchThreads |-> "idle"]
    /\ mfLoc = [t \in FetchThreads |-> NoLocals]
    /\ mfTrace = [t \in FetchThreads |-> <<>>]
    /\ mfOut = [t \in FetchThreads |-> NoResult]
    /\ dlPrev = NoDownload
    /\ QuietVM /\ QuietKw /\ QuietSrt /\ QuietCol /\ QuietHw

SpecBackground == InitBackground /\ [][NextBackground]_vars

UsesBackgroundFile(cmd) == cmd.strategy \in {"video_loop_crop", "image_ken_burns"}

\* The lookup ended with a download_file call that returned the path.
FromDownload(t) ==
    /\ mfPc[t] = "returned"
    /\ mfOut[t].path # ""
    /\ mfTrace[t] # <<>>
    /\ LET last == mfTrace[t][Len(mfTrace[t])] IN
       last.op = "download_file" /\ ~last.failed /\ last.path = mfOut[t].path

\* C25: in a run of the web or cli front end, a video or image background
\* command always has a non-empty background path. With a lookup, the kind
\* and the path are those of a lookup result whose download_file call
\* returned a path; without one, they come from the detection on a manual
\* file that exists and has a known suffix. A lookup result of kind none
\* gives the solid-color command.
C25_BackgroundPathNonEmpty ==
    LET t == RunThread
        cmd == vmCmd[t]
    IN vmPc[t] = "encode" =>
        /\ UsesBackgroundFile(cmd) =>
              /\ ~cmd.input.empty
              /\ IF FetchWanted(feKind, feIn)
                 THEN /\ FromDownload(t)
                      /\ mfOut[t].type = vmArgs[t].bgType
                      /\ cmd.input = AsBgPath(mfOut[t].path)
                      /\ cmd.input.exists
                 ELSE /\ feIn.manualBg
                      /\ vmArgs[t].reqType = "auto"
                      /\ cmd.input = feIn.manual
                      /\ feIn.manual.exists /\ KnownSuffix(feIn.manual)
        /\ (FetchWanted(feKind, feIn) /\ mfOut[t].type = "none") =>
              (cmd.strategy = "solid_color" /\ mfOut[t].path = "")

\* A cli run whose lookup downloaded a video: create has built the looped
\* video command on the cache file.
C25_Witness ==
    LET t == RunThread IN
    /\ feKind = "cli" /\ feIn.autoBg /\ ~feIn.manualBg
    /\ vmPc[t] = "encode"
    /\ vmCmd[t].strategy = "video_loop_crop"
    /\ FromDownload(t) /\ mfTrace[t][Len(mfTrace[t])].net
    /\ mfOut[t].type = "video"
    /\ vmCmd[t].input = [empty |-> FALSE, exists |-> TRUE, suffix |-> ".mp4"]

\* An app run without lookup: the manual file exists and is an image.
C25_ManualImage ==
    LET t == RunThread IN
    /\ feKind = "app" /\ ~feIn.autoBg /\ feIn.manualBg
    /\ vmPc[t] = "encode"
    /\ vmCmd[t].strategy = "image_ken_burns"
    /\ vmCmd[t].input = [empty |-> FALSE, exists |-> TRUE, suffix |-> ".png"]

\* A lookup that found nothing: the solid color is rendered.
C25_LookupNone ==
    LET t == RunThread IN
    /\ FetchWanted(feKind, feIn) /\ mfTrace[t] # <<>>
    /\ vmPc[t] = "encode"
    /\ mfOut[t].type = "none"
    /\ vmCmd[t].strategy = "solid_color"

====
